---- MODULE Spec2Model ----
(***************************************************************************)
(* Rule-based policy evaluation of leaf-common: Condition.parse,           *)
(* RuleEvaluator.evaluate and the vote aggregation of a rule set.          *)
(*                                                                         *)
(* Numbers: the code computes on floats.  Coefficients and literal         *)
(* thresholds are held here as integers in units of 1/GRANULARITY          *)
(* (0.5 is 50), observations and calibration bounds as integers, and both  *)
(* operands of a comparison in units of 1/GRANULARITY, so that every       *)
(* comparison is exact.                                                    *)
(***************************************************************************)
EXTENDS Integers, Sequences, FiniteSets, TLC

VARIABLES condition, rule, rule_set, observation_history, min_maxes, ret,
          config_vars, heap, caller_min_maxes, serialization_format, file,
          instances, threads, evaluator, fired, racy, caller, binding,
          client, rpc, service

vars == <<condition, rule, rule_set, observation_history, min_maxes, ret,
          config_vars, heap, caller_min_maxes, serialization_format, file,
          instances, threads, evaluator, fired, racy, caller, binding,
          client, rpc, service>>

\* The state outside the evaluation of conditions, rules and rule sets
config_helper == <<config_vars>>
construction == <<heap, caller_min_maxes>>
persistence == <<serialization_format, file>>
concurrency == <<instances, threads, evaluator, fired, racy>>
bound == <<caller, binding>>
session == <<client, rpc, service>>
outside == <<config_helper, construction, persistence, concurrency, bound, session>>

\* The state of the evaluation of conditions, rules and rule sets
rule_based == <<condition, rule, rule_set, observation_history, min_maxes>>

----------------------------------------------------------------------------
(* Constants of RulesEvaluationConstants *)

GRANULARITY == 100
MIN_KEY == "min"
MAX_KEY == "max"
LESS_THAN == "<"
LESS_THAN_EQUAL == "<="
GREATER_THAN == ">"
GREATER_THAN_EQUAL == ">="
LOOK_BACK == "lb"
\* The code's NO_ACTION is the integer -1; actions are strings, and the marker
\* is kept as a string here so that it can be compared with them.
NO_ACTION == "-1"

OPERATORS == {LESS_THAN, LESS_THAN_EQUAL, GREATER_THAN, GREATER_THAN_EQUAL}

----------------------------------------------------------------------------
(* Bounds of the model *)

MaxLookback == 1
MaxConditions == 2
MaxRules == 2
MaxApplied == 2

\* the longest history: one step more than the largest lookback
MaxHistory == MaxLookback + 1

\* The keys of the states dictionary handed to the evaluators
StateKeys == {"0", "1"}
\* A second_state_key that is no key of the states dictionary: the second
\* operand of such a condition is the literal second_state_value
LITERAL_KEY == "none"
\* The keys of the actions dictionary
ActionKeys == {"0", "1"}

Values == {0, 1}
Coefficients == {50, 100}
Literals == {0, 50, 100}
Lookbacks == 0 .. MaxLookback

\* An operator outside OPERATORS, and the operator of a condition that was
\* constructed and never given one (None)
BadOperators == {"==", "None"}

Observations == [StateKeys -> Values]

RECURSIVE HistoriesOfLen(_)
HistoriesOfLen(n) ==
    IF n = 0 THEN {<<>>}
    ELSE {Append(h, o) : h \in HistoriesOfLen(n - 1), o \in Observations}

\* Observation histories hold at least one step, most recent last
Histories == UNION {HistoriesOfLen(n) : n \in 1 .. MaxHistory}

(* min_maxes is a dictionary keyed by (state key, "min"/"max").  A key that *)
(* is absent from the dictionary is absent from the domain of the function. *)
FullCalibration ==
    [k \in StateKeys \X {MIN_KEY, MAX_KEY} |->
        IF k[2] = MIN_KEY THEN 0 ELSE IF k[1] = "0" THEN 1 ELSE 2]

Restrict(f, S) == [k \in S |-> f[k]]

Calibrations ==
    { FullCalibration,
      \* nothing known about state "0"
      Restrict(FullCalibration, {"1"} \X {MIN_KEY, MAX_KEY}),
      \* a partial entry for state "0": its min without its max
      Restrict(FullCalibration, ({"1"} \X {MIN_KEY, MAX_KEY}) \cup {<<"0", MIN_KEY>>}) }

----------------------------------------------------------------------------
(* Condition *)

\* Condition.__init__ leaves every field None; the fields are then set by the
\* code that builds the condition.  Conditions with a literal second operand
\* and conditions with a second state are enumerated separately.
LiteralConditions ==
    [first_state_key : StateKeys, first_state_lookback : Lookbacks,
     first_state_coefficient : Coefficients,
     operator : OPERATORS \cup BadOperators,
     second_state_key : {LITERAL_KEY}, second_state_lookback : Lookbacks,
     second_state_value : Literals, second_state_coefficient : {100}]

StateConditions ==
    [first_state_key : StateKeys, first_state_lookback : Lookbacks,
     first_state_coefficient : Coefficients,
     operator : OPERATORS \cup BadOperators,
     second_state_key : {"1"}, second_state_lookback : Lookbacks,
     second_state_value : {0}, second_state_coefficient : Coefficients]

Conditions == LiteralConditions \cup StateConditions

\* `self.second_state_key in self.states.keys()`
HasSecondState(c) == c.second_state_key \in StateKeys

\* The same test for a condition whose state map is states
second_state_in(c, states) == c.second_state_key \in DOMAIN states

\* Whether min_maxes holds both the min and the max of c's first state
Calibrated(c, mm) ==
    /\ <<c.first_state_key, MIN_KEY>> \in DOMAIN mm
    /\ <<c.first_state_key, MAX_KEY>> \in DOMAIN mm

\* The outcome of a call: raised names the exception ("" when the call
\* returned), value is what it returned, reads the indices of the history it
\* subscripted
Returned(v, reads, op1, op2) ==
    [raised |-> "", value |-> v, reads |-> reads, compared |-> TRUE,
     operand_1 |-> op1, operand_2 |-> op2]
Raised(e, reads) ==
    [raised |-> e, value |-> FALSE, reads |-> reads, compared |-> FALSE,
     operand_1 |-> 0, operand_2 |-> 0]

\* A Python list subscript domain_states[idx]: an index in -len .. -1 counts
\* from the end, and an index outside -len .. len - 1 raises IndexError
subscript(domain_states, idx) ==
    IF idx >= 0 /\ idx < Len(domain_states)
    THEN [raised |-> "", value |-> domain_states[idx + 1]]
    ELSE IF idx < 0 /\ 0 - idx =< Len(domain_states)
         THEN [raised |-> "", value |-> domain_states[Len(domain_states) + idx + 1]]
         ELSE [raised |-> "IndexError", value |-> [k \in StateKeys |-> 0]]

\* Mutant: the threshold rescaled with the calibration of the second state key
calibration_key_second(c) == c.second_state_key

\* The calibration the literal threshold is rescaled with: that of the
\* condition's first state
calibration_key(c) == c.first_state_key

\* Mutant: a missing min or max read with a default (0 and 1) instead of
\* raising KeyError
get_second_state_value_default(c, domain_states, nb_states, mm) ==
    IF HasSecondState(c)
    THEN [raised |-> "",
          value |-> subscript(domain_states, nb_states - c.second_state_lookback)
                        .value[c.second_state_key] * c.second_state_coefficient,
          reads |-> {nb_states - c.second_state_lookback}]
    ELSE LET the_min == IF <<c.first_state_key, MIN_KEY>> \in DOMAIN mm
                        THEN mm[<<c.first_state_key, MIN_KEY>>] ELSE 0
             the_max == IF <<c.first_state_key, MAX_KEY>> \in DOMAIN mm
                        THEN mm[<<c.first_state_key, MAX_KEY>>] ELSE 1
         IN  [raised |-> "",
              value |-> the_min * GRANULARITY + (the_max - the_min) * c.second_state_value,
              reads |-> {}]

\* Condition.get_second_state_value, in units of 1/GRANULARITY
get_second_state_value(c, domain_states, nb_states, mm) ==
    IF HasSecondState(c)
    THEN LET second_state_idx == nb_states - c.second_state_lookback
             second_state == subscript(domain_states, second_state_idx)
         IN  IF second_state.raised # ""
             THEN [raised |-> second_state.raised, value |-> 0,
                   reads |-> {second_state_idx}]
             ELSE [raised |-> "",
                   value |-> second_state.value[c.second_state_key]
                                 * c.second_state_coefficient,
                   reads |-> {second_state_idx}]
    ELSE IF <<calibration_key(c), MIN_KEY>> \notin DOMAIN mm
            \/ <<calibration_key(c), MAX_KEY>> \notin DOMAIN mm
         THEN [raised |-> "KeyError", value |-> 0, reads |-> {}]
         ELSE LET the_min == mm[<<calibration_key(c), MIN_KEY>>]
                  the_max == mm[<<calibration_key(c), MAX_KEY>>]
                  the_range == the_max - the_min
              IN  [raised |-> "",
                   value |-> the_min * GRANULARITY + the_range * c.second_state_value,
                   reads |-> {}]

\* Mutant: GREATER_THAN compared inclusively
Compare_inclusive(operator, operand_1, operand_2) ==
    \/ (operator = GREATER_THAN_EQUAL /\ operand_1 >= operand_2)
    \/ (operator = LESS_THAN_EQUAL /\ operand_1 =< operand_2)
    \/ (operator = GREATER_THAN /\ operand_1 >= operand_2)
    \/ (operator = LESS_THAN /\ operand_1 < operand_2)

\* The comparison at the end of Condition.parse
Compare(operator, operand_1, operand_2) ==
    \/ (operator = GREATER_THAN_EQUAL /\ operand_1 >= operand_2)
    \/ (operator = LESS_THAN_EQUAL /\ operand_1 =< operand_2)
    \/ (operator = GREATER_THAN /\ operand_1 > operand_2)
    \/ (operator = LESS_THAN /\ operand_1 < operand_2)

\* Mutant: the length of the history compared where its last index is meant
InsufficientHistory_length(c, nb_states) ==
    nb_states + 1 < c.first_state_lookback \/ nb_states + 1 < c.second_state_lookback

\* Whether Condition.parse returns early for want of history
InsufficientHistory(c, nb_states) ==
    nb_states < c.first_state_lookback \/ nb_states < c.second_state_lookback

\* Condition.parse
parse(c, domain_states, mm) ==
    LET nb_states == Len(domain_states) - 1 IN
    IF InsufficientHistory(c, nb_states)
    THEN [raised |-> "", value |-> FALSE, reads |-> {}, compared |-> FALSE,
          operand_1 |-> 0, operand_2 |-> 0]
    ELSE LET domain_state_idx == nb_states - c.first_state_lookback
             domain_state == subscript(domain_states, domain_state_idx)
         IN  IF domain_state.raised # ""
             THEN Raised(domain_state.raised, {domain_state_idx})
             ELSE LET domain_state_value == domain_state.value[c.first_state_key]
                      operand_1 == domain_state_value * c.first_state_coefficient
                      second == get_second_state_value(c, domain_states, nb_states, mm)
                  IN  IF second.raised # ""
                      THEN Raised(second.raised, {domain_state_idx} \cup second.reads)
                      ELSE Returned(Compare(c.operator, operand_1, second.value),
                                    {domain_state_idx} \cup second.reads,
                                    operand_1, second.value)

----------------------------------------------------------------------------
(* The specification of Condition.parse as a function of its inputs *)

NoCall == [op |-> "none"]
\* The address that is no object's: None where an object may be given
NoObject == 0
\* A file that does not exist
NoFile == [exists |-> FALSE, content |-> <<>>]
NoRule == [conditions |-> <<>>, action |-> "0", action_lookback |-> 0, times_applied |-> 0]
NoCondition == CHOOSE c \in Conditions : TRUE
NoRuleSet == [rules |-> <<>>, default_action |-> "0", default_action_coefficient |-> 100,
              times_applied |-> 0, age_state |-> 0]

\* Nothing is going on outside the evaluation
ConfigHelperIdle == config_vars = <<>>

ConstructionIdle ==
    /\ heap = <<>>
    /\ caller_min_maxes = NoObject

PersistenceIdle ==
    /\ serialization_format = "text"
    /\ file = NoFile

ConcurrencyIdle ==
    /\ instances = <<>>
    /\ threads = <<>>
    /\ evaluator = <<>>
    /\ fired = <<>>
    /\ racy = <<>>

\* No binding has been made
BoundIdle ==
    /\ caller = NoObject
    /\ binding = NoObject

\* No client has been made
SessionIdle ==
    /\ client = NoObject
    /\ rpc = NoCall
    /\ service = NoObject

OutsideIdle ==
    /\ ConfigHelperIdle
    /\ ConstructionIdle
    /\ PersistenceIdle
    /\ ConcurrencyIdle
    /\ BoundIdle
    /\ SessionIdle

\* Nothing is going on in the evaluation
RuleBasedIdle ==
    /\ condition = NoCondition
    /\ rule = NoRule
    /\ rule_set = NoRuleSet
    /\ observation_history = <<>>
    /\ min_maxes = FullCalibration

CondInit ==
    /\ condition \in Conditions
    /\ observation_history \in Histories
    /\ min_maxes \in Calibrations
    /\ rule = NoRule
    /\ rule_set = NoRuleSet
    /\ ret = NoCall
    /\ OutsideIdle

Parse ==
    /\ ret.op = "none"
    /\ ret' = [op |-> "parse", out |-> parse(condition, observation_history, min_maxes)]
    /\ UNCHANGED <<condition, rule, rule_set, observation_history, min_maxes>>
    /\ UNCHANGED outside

CondNext == Parse

CondSpec == CondInit /\ [][CondNext]_vars

----------------------------------------------------------------------------
(* Rule and RuleEvaluator *)

\* ConditionEvaluator.evaluate, which RuleEvaluator.evaluate calls for each
\* condition: false for want of history (the second lookback counting only
\* when the second operand is a state), else left OP right
condition_evaluate(c, history, mm) ==
    LET nb_states == Len(history) - 1 IN
    IF nb_states < c.first_state_lookback
        \/ (HasSecondState(c) /\ nb_states < c.second_state_lookback)
    THEN [raised |-> "", value |-> FALSE]
    ELSE LET left == subscript(history, nb_states - c.first_state_lookback)
                        .value[c.first_state_key] * c.first_state_coefficient
             right == get_second_state_value(c, history, nb_states, mm)
         IN  IF right.raised # ""
             THEN [raised |-> right.raised, value |-> FALSE]
             ELSE [raised |-> "", value |-> Compare(c.operator, left, right.value)]

\* The conditions a rule of the model is made of: state "0", now or
\* MaxLookback steps ago, at least half way up its range, or at least state "1"
RuleConditions ==
    {c \in Conditions :
        /\ c.first_state_key = "0"
        /\ c.first_state_coefficient = 100
        /\ c.second_state_coefficient = 100
        /\ c.operator = GREATER_THAN_EQUAL
        /\ c.second_state_lookback = 0
        /\ \/ ~HasSecondState(c) /\ c.second_state_value = 50
                /\ c.first_state_lookback \in {0, MaxLookback}
           \/ HasSecondState(c) /\ c.first_state_lookback = 0}

RECURSIVE SeqsUpTo(_, _)
SeqsUpTo(S, n) ==
    IF n = 0 THEN {<<>>}
    ELSE LET shorter == SeqsUpTo(S, n - 1)
         IN  shorter \cup {Append(q, x) : q \in {r \in shorter : Len(r) = n - 1}, x \in S}

\* Rule: its conditions, action, action_lookback and the times_applied counter
Rules ==
    [conditions : SeqsUpTo(RuleConditions, MaxConditions),
     action : ActionKeys, action_lookback : Lookbacks, times_applied : {0}]

NO_MATCH == <<NO_ACTION, 0>>

\* The loop of RuleEvaluator.evaluate over rule.conditions from the i-th on:
\* "hold" when it runs to its end, "fail" when a condition is false (the
\* conditions after it are not evaluated), else the exception a condition raised
RECURSIVE conditions_loop(_, _, _, _)
conditions_loop(conditions, i, history, mm) ==
    IF i > Len(conditions) THEN "hold"
    ELSE LET condition_result == condition_evaluate(conditions[i], history, mm)
         IN  IF condition_result.raised # "" THEN condition_result.raised
             ELSE IF ~condition_result.value THEN "fail"
             ELSE conditions_loop(conditions, i + 1, history, mm)

\* Mutant: the length of the history compared where its last index is meant
lookback_unavailable_length(r, nb_states) == nb_states + 1 < r.action_lookback

\* `nb_states < rule.action_lookback`
lookback_unavailable(r, nb_states) == nb_states < r.action_lookback

\* Mutant: the counter left alone
count_application_forgotten(r) == r

\* `rule.times_applied += 1`
count_application(r) == [r EXCEPT !.times_applied = @ + 1]

\* Mutant: the rule's own action returned whatever the lookback
action_indicator_no_lookback(r) == <<r.action, 0>>

\* The list returned for a rule that fires
action_indicator(r) ==
    IF r.action_lookback = 0 THEN <<r.action, 0>>
    ELSE <<LOOK_BACK, r.action_lookback>>

\* Mutant: the application counted before the action lookback is checked
after_conditions_counting_early(r, nb_states, loop) ==
    IF loop \notin {"hold", "fail"}
    THEN [raised |-> loop, result |-> NO_MATCH, rule |-> r]
    ELSE IF loop = "fail"
    THEN [raised |-> "", result |-> NO_MATCH, rule |-> r]
    ELSE IF lookback_unavailable(r, nb_states)
    THEN [raised |-> "", result |-> NO_MATCH, rule |-> count_application(r)]
    ELSE [raised |-> "", result |-> action_indicator(r), rule |-> count_application(r)]

\* RuleEvaluator.evaluate from the end of its loop over the conditions, which
\* came to loop: what the call raises or returns, and the rule as it leaves it
after_conditions(r, nb_states, loop) ==
    IF loop \notin {"hold", "fail"}
    THEN [raised |-> loop, result |-> NO_MATCH, rule |-> r]
    ELSE IF loop = "fail"
    THEN [raised |-> "", result |-> NO_MATCH, rule |-> r]
    ELSE IF lookback_unavailable(r, nb_states)
    THEN [raised |-> "", result |-> NO_MATCH, rule |-> r]
    ELSE [raised |-> "", result |-> action_indicator(r),
          rule |-> count_application(r)]

\* RuleEvaluator.evaluate
evaluate(r, history, mm) ==
    after_conditions(r, Len(history) - 1,
                     conditions_loop(r.conditions, 1, history, mm))

\* The two calibrations a rule is evaluated under: complete, and with nothing
\* known about state "0"
RuleCalibrations == {mm \in Calibrations : <<"0", MIN_KEY>> \in DOMAIN mm => mm = FullCalibration}

\* The rule the calls are made on: a rule of Rules as constructed, or one that
\* was applied before
EvaluatedRules == {[r EXCEPT !.times_applied = n] : r \in Rules, n \in 0 .. MaxApplied - 1}

Init ==
    /\ rule \in EvaluatedRules
    /\ observation_history \in HistoriesOfLen(1)
    /\ min_maxes \in RuleCalibrations
    /\ condition = NoCondition
    /\ rule_set = NoRuleSet
    /\ ret = NoCall
    /\ OutsideIdle

\* A new observation is appended to the history
Observe(o) ==
    /\ Len(observation_history) < MaxHistory
    /\ observation_history' = Append(observation_history, o)
    /\ UNCHANGED <<condition, rule, rule_set, min_maxes, ret>>
    /\ UNCHANGED outside

\* The state a call of RuleEvaluator.evaluate leaves, out being its outcome
\* (ret also logs the calls made so far: the rule's times_applied before the
\* first of them, and how many of them returned an action or a lookback)
Evaluated_rule(out) ==
    /\ rule' = out.rule
    /\ ret' = [op |-> "evaluate", before |-> rule,
               history |-> observation_history,
               raised |-> out.raised, result |-> out.result,
               initial |-> IF ret.op = "evaluate" THEN ret.initial
                           ELSE rule.times_applied,
               matched |-> (IF ret.op = "evaluate" THEN ret.matched ELSE 0)
                           + (IF out.raised = "" /\ out.result # NO_MATCH
                              THEN 1 ELSE 0)]

\* One call of RuleEvaluator.evaluate on the rule
EvaluateRule ==
    /\ rule.times_applied < MaxApplied
    /\ Evaluated_rule(evaluate(rule, observation_history, min_maxes))
    /\ UNCHANGED <<condition, rule_set, observation_history, min_maxes>>
    /\ UNCHANGED outside

Next ==
    \/ \E o \in Observations : Observe(o)
    \/ EvaluateRule

Spec == Init /\ [][Next]_vars

----------------------------------------------------------------------------
(* RuleSet, the vote of its rules and RuleSetBindingEvaluator.evaluate *)

\* The conditions of the rules of a rule set: none, or state "0" now at
\* least half way up its range
SetConditions ==
    {q \in SeqsUpTo(RuleConditions, 1) :
        \A i \in 1 .. Len(q) : ~HasSecondState(q[i]) /\ q[i].first_state_lookback = 0}

\* The rules of a rule set of the model.  A rule that acts now names one of
\* the actions and has a coefficient of its own (<<c>>) or none (<<>>); a
\* rule that defers to the action taken MaxLookback steps ago has none
SetRules ==
    [conditions : SetConditions, action : ActionKeys, action_lookback : {0},
     action_coefficient : {<<>>, <<50>>}, times_applied : {0}]
    \cup
    [conditions : SetConditions, action : {"0"}, action_lookback : {MaxLookback},
     action_coefficient : {<<>>}, times_applied : {0}]

\* What the caller knows of the actions taken earlier: the action that was
\* active l steps ago, for the lookbacks l the rules defer to
PastActions == [{MaxLookback} -> ActionKeys]

\* RuleSet.__init__ and the genetic material given to the set afterwards
RuleSets ==
    [rules : SeqsUpTo(SetRules, MaxRules) \ {<<>>},
     default_action : ActionKeys, default_action_coefficient : Coefficients,
     times_applied : {0}, age_state : {0}]

\* The observations fed to a rule set: its rules read state "0" only
SetObservations == {o \in Observations : o["1"] = 0}

RECURSIVE SamplesOfLen(_)
SamplesOfLen(n) ==
    IF n = 0 THEN {<<>>}
    ELSE {Append(h, o) : h \in SamplesOfLen(n - 1), o \in SetObservations}

\* Every known action starts at count 0 and coefficient sum 0.0
empty_poll == [a \in ActionKeys |-> [count |-> 0, coefficient_sum |-> 0]]

\* Mutant: a vote adds its weight and is not counted
vote_weight_only(poll, a, w) ==
    [poll EXCEPT ![a] = [count |-> @.count,
                         coefficient_sum |-> @.coefficient_sum + w]]

\* One vote for action a with weight w
vote(poll, a, w) ==
    [poll EXCEPT ![a] = [count |-> @.count + 1,
                         coefficient_sum |-> @.coefficient_sum + w]]

\* The weight of a firing rule: its own coefficient, or the default
\* coefficient of the set when the rule has none
weight(r, rs) ==
    IF r.action_coefficient = <<>> THEN rs.default_action_coefficient
    ELSE r.action_coefficient[1]

\* The rules of the set from the i-th on, each evaluated by
\* RuleEvaluator.evaluate; a deferred action is resolved by past, the
\* caller's record of the action that was active so many steps ago
voted_action(out, past) ==
    IF out.result[1] = LOOK_BACK THEN past[out.result[2]] ELSE out.result[1]

\* Mutant: the first rule that fires decides, the rules after it do not vote
after_rule_first_wins(rs, i, acc, out, past) ==
    IF out.raised # "" THEN [acc EXCEPT !.raised = out.raised]
    ELSE IF out.result[1] = NO_ACTION \/ acc.fired THEN acc
    ELSE [raised |-> "",
          rules |-> [acc.rules EXCEPT ![i] = out.rule],
          poll |-> vote(acc.poll, voted_action(out, past), weight(acc.rules[i], rs)),
          fired |-> TRUE]

\* The accumulators of the loop after rule i, evaluated with outcome out
after_rule(rs, i, acc, out, past) ==
    IF out.raised # "" THEN [acc EXCEPT !.raised = out.raised]
    ELSE IF out.result[1] = NO_ACTION THEN acc
    ELSE [raised |-> "",
          rules |-> [acc.rules EXCEPT ![i] = out.rule],
          poll |-> vote(acc.poll, voted_action(out, past), weight(acc.rules[i], rs)),
          fired |-> TRUE]

RECURSIVE rules_loop(_, _, _, _, _, _)
rules_loop(rs, i, acc, history, mm, past) ==
    IF i > Len(acc.rules) \/ acc.raised # "" THEN acc
    ELSE rules_loop(rs, i + 1,
                    after_rule(rs, i, acc, evaluate(acc.rules[i], history, mm), past),
                    history, mm, past)

\* The default action gets the vote when the loop over the rules ended
\* without a rule firing
default_vote(rs, loop) ==
    IF loop.raised = "" /\ ~loop.fired
    THEN [loop EXCEPT !.poll = vote(loop.poll, rs.default_action,
                                    rs.default_action_coefficient)]
    ELSE loop

\* choose_action: the vote table of the set on the history, and the rules as
\* the evaluation leaves them
choose_action(rs, history, mm, past) ==
    default_vote(rs, rules_loop(rs, 1,
        [raised |-> "", rules |-> rs.rules, poll |-> empty_poll, fired |-> FALSE],
        history, mm, past))

\* Mutant: an action is scored only from its second vote on
score_from_second_vote(entry) ==
    IF entry.count > 1
    THEN [num |-> entry.coefficient_sum, den |-> entry.count]
    ELSE [num |-> 0, den |-> 1]

\* Mutant: the sum is divided by the count whatever the count is
score_unguarded(entry) ==
    [num |-> entry.coefficient_sum, den |-> entry.count]

\* The score RuleSetBindingEvaluator.evaluate reports for one action:
\* coefficient_sum / count as the fraction num/den, 0.0 when count is 0
score(entry) ==
    IF entry.count > 0
    THEN [num |-> entry.coefficient_sum, den |-> entry.count]
    ELSE [num |-> 0, den |-> 1]

\* The accumulators of the loop over the samples after one more sample,
\* whose vote ended with out
after_sample(acc, out) ==
    IF out.raised # "" THEN [acc EXCEPT !.raised = out.raised, !.rules = out.rules]
    ELSE [raised |-> "", rules |-> out.rules,
          polls |-> Append(acc.polls, out.poll),
          sample_actions |-> Append(acc.sample_actions,
                                    [a \in ActionKeys |-> score(out.poll[a])])]

\* The loop of RuleSetBindingEvaluator.evaluate over the samples from the
\* k-th on: the evaluator made for the call sees the samples up to the
\* current one as its history
RECURSIVE samples_loop(_, _, _, _, _, _)
samples_loop(rs, data, k, mm, past, acc) ==
    IF k > Len(data) \/ acc.raised # "" THEN acc
    ELSE samples_loop(rs, data, k + 1, mm, past,
            after_sample(acc, choose_action([rs EXCEPT !.rules = acc.rules],
                                            SubSeq(data, 1, k), mm, past)))

binding_evaluate(rs, data, mm, past) ==
    samples_loop(rs, data, 1, mm, past,
                 [raised |-> "", rules |-> rs.rules, polls |-> <<>>,
                  sample_actions |-> <<>>])

SetInit ==
    /\ rule_set \in RuleSets
    /\ min_maxes = FullCalibration
    /\ observation_history = <<>>
    /\ condition = NoCondition
    /\ rule = NoRule
    /\ ret = NoCall
    /\ OutsideIdle

\* The state a call of RuleSetBindingEvaluator.evaluate leaves, out being
\* what its loop over the samples came to
Evaluated_binding(data, past, out) ==
    /\ rule_set' = [rule_set EXCEPT !.rules = out.rules]
    /\ ret' = [op |-> "binding_evaluate", before |-> rule_set,
               data |-> data, past |-> past, raised |-> out.raised,
               polls |-> out.polls, sample_actions |-> out.sample_actions]

\* One call of RuleSetBindingEvaluator.evaluate on the samples of data
BindingEvaluate(data, past) ==
    /\ \A i \in 1 .. Len(rule_set.rules) :
           rule_set.rules[i].times_applied + Len(data) =< MaxApplied
    /\ Evaluated_binding(data, past, binding_evaluate(rule_set, data, min_maxes, past))
    /\ UNCHANGED <<condition, rule, observation_history, min_maxes>>
    /\ UNCHANGED outside

\* The data of a call: one sample at least
Samples == UNION {SamplesOfLen(n) : n \in 1 .. MaxHistory}

SetNext ==
    \E data \in Samples : \E past \in PastActions : BindingEvaluate(data, past)

SetSpec == SetInit /\ [][SetNext]_vars

----------------------------------------------------------------------------
(* RuleSetConfigHelper: the enumeration of the variables of a schema *)

CATEGORY_EXPLAINABLE_MARKER == "_is_category_"

MaxVars == 2
MaxSize == 6

\* str(n) of Python for a natural number: its decimal digits
Digit == <<"0", "1", "2", "3", "4", "5", "6", "7", "8", "9">>

RECURSIVE str(_)
str(n) ==
    IF n < 10 THEN Digit[n + 1]
    ELSE str(n \div 10) \o Digit[(n % 10) + 1]

\* The names of the variables of a schema and of their categories
VarNames == {"context", "mode"}
Letters == <<"A", "B">>
CategoryName(i) == IF i <= Len(Letters) THEN Letters[i] ELSE "v" \o str(i)
CategoryNames(n) == [i \in 1 .. n |-> CategoryName(i)]

\* The descriptors of a schema: name and size, and 'values' absent, one
\* short of the size, of the size, or one longer
Descriptors ==
    UNION {
        [name : VarNames, size : {n}]
        \cup
        [name : VarNames, size : {n},
         values : {CategoryNames(n - 1), CategoryNames(n), CategoryNames(n + 1)}]
        : n \in 1 .. MaxSize}

Schemas == SeqsUpTo(Descriptors, MaxVars)

\* A dictionary with nothing in it, and d[key] = value on a dictionary
empty_dict == [key \in {} |-> ""]
dict_set(d, key, value) ==
    [k \in DOMAIN d \cup {key} |-> IF k = key THEN value ELSE d[k]]

\* Mutant: the categories are taken from the last to the first
values_entry_reversed(var_item, i) ==
    IF "values" \notin DOMAIN var_item THEN [raised |-> "KeyError", value |-> ""]
    ELSE IF var_item.size - 1 - i >= Len(var_item.values)
    THEN [raised |-> "IndexError", value |-> ""]
    ELSE [raised |-> "", value |-> var_item.values[var_item.size - i]]

\* Mutant: a category that 'values' does not give is named by the empty
\* string
values_entry_default(var_item, i) ==
    IF "values" \in DOMAIN var_item /\ i < Len(var_item.values)
    THEN [raised |-> "", value |-> var_item.values[i + 1]]
    ELSE [raised |-> "", value |-> ""]

\* var_item['values'][i]: KeyError without 'values', IndexError past its end
values_entry(var_item, i) ==
    IF "values" \notin DOMAIN var_item THEN [raised |-> "KeyError", value |-> ""]
    ELSE IF i >= Len(var_item.values) THEN [raised |-> "IndexError", value |-> ""]
    ELSE [raised |-> "", value |-> var_item.values[i + 1]]

\* Mutant: the index is not advanced within a categorical variable
category_assigned_in_place(acc, var_item, entry) ==
    IF entry.raised # "" THEN [acc EXCEPT !.raised = entry.raised]
    ELSE [acc EXCEPT !.var = dict_set(acc.var, str(acc.var_index),
                var_item.name \o CATEGORY_EXPLAINABLE_MARKER \o entry.value)]

\* The body of the inner loop, entry being var_item['values'][i]
category_assigned(acc, var_item, entry) ==
    IF entry.raised # "" THEN [acc EXCEPT !.raised = entry.raised]
    ELSE [acc EXCEPT !.var = dict_set(acc.var, str(acc.var_index),
                var_item.name \o CATEGORY_EXPLAINABLE_MARKER \o entry.value),
                     !.var_index = acc.var_index + 1]

\* for i in range(var_item['size']), from i on
RECURSIVE categories_loop(_, _, _)
categories_loop(acc, var_item, i) ==
    IF i >= var_item.size \/ acc.raised # "" THEN acc
    ELSE categories_loop(category_assigned(acc, var_item, values_entry(var_item, i)),
                         var_item, i + 1)

\* The body of the loop over the variables
variable_enumerated(acc, var_item) ==
    IF var_item.size > 1 THEN categories_loop(acc, var_item, 0)
    ELSE [acc EXCEPT !.var = dict_set(acc.var, str(acc.var_index), var_item.name),
                     !.var_index = acc.var_index + 1]

\* for var_item in config_vars, from the j-th on
RECURSIVE variables_loop(_, _, _)
variables_loop(acc, schema, j) ==
    IF j > Len(schema) \/ acc.raised # "" THEN acc
    ELSE variables_loop(variable_enumerated(acc, schema[j]), schema, j + 1)

\* What the caller has of the call: the dictionary the loop came to, or
\* nothing but the exception that left the call
returned_var(acc) ==
    IF acc.raised = "" THEN [raised |-> "", var |-> <<acc.var>>]
    ELSE [raised |-> acc.raised, var |-> <<>>]

\* RuleSetConfigHelper._read_config_shape_var
read_config_shape_var(schema) ==
    returned_var(variables_loop([raised |-> "", var |-> empty_dict, var_index |-> 0],
                                schema, 1))

EncodeInit ==
    /\ config_vars \in Schemas
    /\ ret = NoCall
    /\ RuleBasedIdle
    /\ ConstructionIdle
    /\ PersistenceIdle
    /\ ConcurrencyIdle
    /\ BoundIdle
    /\ SessionIdle

\* One call of _read_config_shape_var on the schema; the result of the
\* call before it on the same schema is remembered
Encode ==
    /\ ret' = [op |-> "encode",
               out |-> read_config_shape_var(config_vars),
               previous |-> IF ret.op = "encode" THEN <<ret.out>> ELSE <<>>]
    /\ UNCHANGED config_vars
    /\ UNCHANGED <<rule_based, construction, persistence, concurrency, bound, session>>

EncodeNext == Encode

EncodeSpec == EncodeInit /\ [][EncodeNext]_vars

----------------------------------------------------------------------------
(* RuleSet.__init__: the set's copy of the caller's min_maxes.              *)
(* The objects of the program live in a heap, a sequence addressed from 1.  *)
(* An object is a dictionary or a list; each of its items is a float or a   *)
(* reference to another object.                                             *)

float(x) == [kind |-> "float", v |-> x]
ref(a) == [kind |-> "ref", v |-> a]
dict_object(items) == [kind |-> "dict", items |-> items]
list_object(items) == [kind |-> "list", items |-> items]
\* An instance of a class, or a dictionary keyed by strings, by its attributes
instance(items) == [kind |-> "instance", items |-> items]

\* The keys a min_maxes dictionary may get and the floats its items may be
MinMaxKeys == {"0"} \X {MIN_KEY, MAX_KEY}
Floats == {0, 1}

\* The heaps of the callers of RuleSet.__init__, the caller's map being at
\* address 1: flat maps of floats, and maps with an item that is a list of
\* its own, the other item being a float, the same list, or absent
CallerHeaps ==
    {<<dict_object(items)>> :
        items \in UNION {[K -> {float(x) : x \in Floats}] :
                            K \in (SUBSET MinMaxKeys) \ {{}}}}
    \cup
    {<<dict_object(items), list_object(<<float(1)>>)>> :
        items \in {[k \in {<<"0", MIN_KEY>>} |-> ref(2)],
                   [k \in MinMaxKeys |-> IF k[2] = MIN_KEY THEN ref(2) ELSE float(1)],
                   [k \in MinMaxKeys |-> ref(2)]}}

\* The objects an object refers to, and those reachable from a root
Refs(h, a) ==
    {h[a].items[k].v : k \in {k \in DOMAIN h[a].items : h[a].items[k].kind = "ref"}}

RECURSIVE ReachFrom(_, _, _)
ReachFrom(h, frontier, seen) ==
    IF frontier = {} THEN seen
    ELSE ReachFrom(h, UNION {Refs(h, a) : a \in frontier} \ seen,
                   seen \cup UNION {Refs(h, a) : a \in frontier})

Reach(h, root) == ReachFrom(h, {root}, {root})

\* The copy of one object, its references redirected by memo
copied_object(object, memo) ==
    [object EXCEPT !.items =
        [k \in DOMAIN object.items |->
            IF object.items[k].kind = "ref"
            THEN ref(memo[object.items[k].v])
            ELSE object.items[k]]]

\* The n-th of a set of addresses in increasing order
Ranked(R, n) == CHOOSE a \in R : Cardinality({b \in R : b < a}) = n - 1

\* Mutant: the top-level object is copied, its items are not
shallow_copy(h, root) ==
    [heap |-> Append(h, h[root]), addr |-> Len(h) + 1]

\* copy.deepcopy: every object reachable from root is copied once, and the
\* copies refer to each other as the originals do
deepcopy(h, root) ==
    [heap |-> h \o [n \in 1 .. Cardinality(Reach(h, root)) |->
                       copied_object(h[Ranked(Reach(h, root), n)],
                           [a \in Reach(h, root) |->
                               Len(h) + Cardinality({b \in Reach(h, root) : b =< a})])],
     addr |-> Len(h) + Cardinality({b \in Reach(h, root) : b =< root})]

\* self.min_maxes = {}, then the deep copy of the argument when there is one
init_min_maxes(h, arg) ==
    IF arg = NoObject
    THEN [heap |-> Append(h, dict_object([k \in {} |-> float(0)])), addr |-> Len(h) + 1]
    ELSE deepcopy(h, arg)

\* The fields RuleSet.__init__ sets, own being what init_min_maxes made
constructed_rule_set(own) ==
    [times_applied |-> 0, age_state |-> 0, default_action |-> "None",
     default_action_coefficient |-> "None", rules |-> <<>>, min_maxes |-> own.addr]

\* What a map holds, every nesting level included, as (path, float) pairs
KeyPath(object, k) ==
    IF object.kind = "dict" THEN k[1] \o "." \o k[2]
    ELSE IF object.kind = "list" THEN str(k)
    ELSE k

RECURSIVE Contents(_, _, _)
Contents(h, a, prefix) ==
    UNION {IF h[a].items[k].kind = "ref"
           THEN Contents(h, h[a].items[k].v, prefix \o KeyPath(h[a], k) \o "/")
           ELSE {<<prefix \o KeyPath(h[a], k), h[a].items[k].v>>}
           : k \in DOMAIN h[a].items}

\* obj[k] = x on the object at address a
item_set(h, a, k, x) ==
    [h EXCEPT ![a].items =
        [j \in DOMAIN h[a].items \cup {k} |-> IF j = k THEN float(x) ELSE h[a].items[j]]]

\* The keys that may be assigned on an object: any key of a dictionary, the
\* indices of a list
Assignable(object) ==
    IF object.kind = "dict" THEN MinMaxKeys ELSE DOMAIN object.items

CopyInit ==
    /\ \E h \in CallerHeaps \cup {<<>>} :
           /\ heap = h
           /\ caller_min_maxes = IF h = <<>> THEN NoObject ELSE 1
    /\ rule_set = NoRuleSet
    /\ ret = NoCall
    /\ condition = NoCondition
    /\ rule = NoRule
    /\ observation_history = <<>>
    /\ min_maxes = FullCalibration
    /\ ConfigHelperIdle
    /\ PersistenceIdle
    /\ ConcurrencyIdle
    /\ BoundIdle
    /\ SessionIdle

\* The state RuleSet.__init__ leaves
Constructed_rule_set(own) ==
    /\ heap' = own.heap
    /\ rule_set' = constructed_rule_set(own)
    /\ ret' = [op |-> "construct"]

\* RuleSet(min_maxes)
Construct ==
    /\ ret.op = "none"
    /\ Constructed_rule_set(init_min_maxes(heap, caller_min_maxes))
    /\ UNCHANGED <<caller_min_maxes, condition, rule, observation_history, min_maxes>>
    /\ UNCHANGED <<config_helper, persistence, concurrency, bound, session>>

\* An assignment into the map at root, at any nesting level, by who holds it
Assign(who, root) ==
    /\ ret.op # "none"
    /\ root # NoObject
    /\ \E a \in Reach(heap, root) : \E k \in Assignable(heap[a]) : \E x \in Floats :
           heap' = item_set(heap, a, k, x)
    /\ ret' = [op |-> who,
               caller_before |-> IF caller_min_maxes = NoObject THEN {}
                                 ELSE Contents(heap, caller_min_maxes, ""),
               set_before |-> Contents(heap, rule_set.min_maxes, "")]
    /\ UNCHANGED <<caller_min_maxes, rule_set, condition, rule,
                   observation_history, min_maxes>>
    /\ UNCHANGED <<config_helper, persistence, concurrency, bound, session>>

\* The caller changes its map after the construction
CallerAssigns == Assign("caller", caller_min_maxes)

\* The set's map is updated, as evaluation does with the data it meets
SetAssigns == Assign("set", rule_set.min_maxes)

CopyNext ==
    \/ Construct
    \/ CallerAssigns
    \/ SetAssigns

CopySpec == CopyInit /\ [][CopyNext]_vars

----------------------------------------------------------------------------
(* SimpleFilePersistence: a rules agent saved to a file and restored.       *)
(* The SerializationFormat that RulesAgentFilePersistence hands to it turns *)
(* the agent into a stream of its fields and back; the stream is of text    *)
(* or of bytes.                                                             *)

Formats == {"text", "bytes"}
FileReferences == {"None", "agent"}

\* The fields of an agent in the order they are written
AgentFields ==
    <<"rules", "default_action", "default_action_coefficient", "times_applied",
      "age_state">>

\* SerializationFormat.from_object: the stream of the fields of the agent
from_object(format, obj) ==
    [kind |-> format,
     data |-> [n \in 1 .. Len(AgentFields) |->
                  [field |-> AgentFields[n], value |-> obj[AgentFields[n]]]]]

\* The value the stream gives for a field
field_value(data, name) ==
    data[CHOOSE n \in 1 .. Len(data) : data[n].field = name].value

\* SerializationFormat.to_object: the agent rebuilt from the stream of its
\* fields; nothing can be rebuilt from an empty stream
to_object(buffer_fileobj) ==
    IF buffer_fileobj.data = <<>> THEN [raised |-> "EOFError", obj |-> <<>>]
    ELSE [raised |-> "",
          obj |-> << [name \in {AgentFields[n] : n \in 1 .. Len(AgentFields)} |->
                         field_value(buffer_fileobj.data, name)] >>]

\* shutil.copyfileobj: what is read from the source is written to the
\* destination; text written to a stream of bytes, or bytes to a stream of
\* text, raises TypeError.  Nothing is written when nothing is read.
copyfileobj(fsrc, fdst_kind) ==
    IF fsrc.data = <<>> THEN [raised |-> "", written |-> <<>>]
    ELSE IF fsrc.kind # fdst_kind THEN [raised |-> "TypeError", written |-> <<>>]
    ELSE [raised |-> "", written |-> fsrc.data]

\* affix_file_extension: no file without a file reference
affix_file_extension(file_reference) ==
    IF file_reference = "None" THEN "ValueError" ELSE ""

\* open(file_name, 'w') and the copy into it
persisted(copy) ==
    [raised |-> copy.raised, file |-> [exists |-> TRUE, content |-> copy.written]]

\* SimpleFilePersistence.persist
persist(format, obj, file_reference, f) ==
    IF affix_file_extension(file_reference) # ""
    THEN [raised |-> affix_file_extension(file_reference), file |-> f]
    ELSE persisted(copyfileobj(from_object(format, obj), "text"))

\* to_object on the buffer the file was copied into
restored(copy) ==
    IF copy.raised # "" THEN [raised |-> copy.raised, obj |-> <<>>]
    ELSE to_object([kind |-> "bytes", data |-> copy.written])

\* SimpleFilePersistence.restore: the file, opened for reading text, is
\* copied into an io.BytesIO buffer
restore(file_reference, f) ==
    IF affix_file_extension(file_reference) # ""
    THEN [raised |-> affix_file_extension(file_reference), obj |-> <<>>]
    ELSE IF ~f.exists THEN [raised |-> "FileNotFoundError", obj |-> <<>>]
    ELSE restored(copyfileobj([kind |-> "text", data |-> f.content], "bytes"))

PersistInit ==
    /\ rule_set \in RuleSets
    /\ serialization_format \in Formats
    /\ file = NoFile
    /\ ret = NoCall
    /\ condition = NoCondition
    /\ rule = NoRule
    /\ observation_history = <<>>
    /\ min_maxes = FullCalibration
    /\ ConfigHelperIdle
    /\ ConstructionIdle
    /\ ConcurrencyIdle
    /\ BoundIdle
    /\ SessionIdle

\* The state a call of persist leaves
Persisted(file_reference, out) ==
    /\ file' = out.file
    /\ ret' = [op |-> "persist", file_reference |-> file_reference,
               raised |-> out.raised]

\* agent.save(file_reference)
Persist(file_reference) ==
    /\ Persisted(file_reference,
                 persist(serialization_format, rule_set, file_reference, file))
    /\ UNCHANGED <<rule_based, serialization_format, config_helper, construction,
                   concurrency, bound, session>>

\* The state a call of restore leaves; saved tells that the call follows a
\* persist of the agent to the same file that returned
Restored(file_reference, out) ==
    /\ ret' = [op |-> "restore", file_reference |-> file_reference,
               raised |-> out.raised, obj |-> out.obj,
               saved |-> /\ ret.op = "persist"
                         /\ ret.raised = ""
                         /\ ret.file_reference = file_reference]

\* RulesAgent.load(file_reference)
Restore(file_reference) ==
    /\ Restored(file_reference, restore(file_reference, file))
    /\ UNCHANGED <<rule_based, persistence, config_helper, construction, concurrency, bound, session>>

PersistNext ==
    \E file_reference \in FileReferences :
        \/ Persist(file_reference)
        \/ Restore(file_reference)

PersistSpec == PersistInit /\ [][PersistNext]_vars

----------------------------------------------------------------------------
(* Rendering: Condition.to_string and RuleSet.to_string.                    *)
(* A name is held as the sequence of its parts between occurrences of the   *)
(* category marker: <<"race", "Hispanic">> is 'race_is_category_Hispanic'.  *)
(* A dictionary argument that is None behaves as the empty dictionary in    *)
(* every test the code makes of it, and is held as the empty dictionary.    *)

\* The parts of a name joined by the marker: the name as a string
RECURSIVE joined(_, _)
joined(parts, n) ==
    IF n = 1 THEN parts[1]
    ELSE joined(parts, n - 1) \o CATEGORY_EXPLAINABLE_MARKER \o parts[n]

name_string(parts) == joined(parts, Len(parts))

\* f'{x:.2f}' of a number held in units of 1/GRANULARITY
format_decimal(x) ==
    str(x \div GRANULARITY) \o "." \o Digit[((x % GRANULARITY) \div 10) + 1]
                            \o Digit[(x % 10) + 1]

\* str(x) of a float that is a whole number
float_str(x) == str(x) \o ".0"

\* The conditions that are rendered
RenderedConditions ==
    [first_state_key : StateKeys, first_state_lookback : {0, 1},
     first_state_coefficient : {50}, first_state_exponent : {1, 2},
     operator : {LESS_THAN, GREATER_THAN_EQUAL},
     second_state_key : {"1", LITERAL_KEY}, second_state_lookback : {0},
     second_state_coefficient : {100}, second_state_exponent : {1},
     second_state_value : {50}]

RenderedRules ==
    [conditions : SeqsUpTo(RenderedConditions, 1), action : ActionKeys,
     action_lookback : {0}, times_applied : {0, 1}]

\* The min_maxes a rule set holds: none, the per-state dictionaries that
\* Condition.to_string reads, those without state "0", and the dictionary
\* keyed by (state, "min"/"max") that RuleSet.__init__ describes
RenderedMinMaxes ==
    { [shape |-> "nested", items |-> empty_dict],
      [shape |-> "nested", items |-> [k \in StateKeys |-> [min |-> 0, max |-> 2]]],
      [shape |-> "nested", items |-> [k \in {"1"} |-> [min |-> 0, max |-> 2]]],
      [shape |-> "tuple", items |-> FullCalibration] }

RenderedRuleSets ==
    [rules : SeqsUpTo(RenderedRules, 1), default_action : ActionKeys,
     default_action_coefficient : {50}, times_applied : {0, 2}, age_state : {0},
     min_maxes : RenderedMinMaxes]

\* The states and actions dictionaries handed to to_string: none, names of
\* continuous states, and names the first of which is categorical
StatesMaps ==
    { empty_dict,
      [k \in StateKeys |-> IF k = "0" THEN <<"temp">> ELSE <<"load">>],
      [k \in StateKeys |-> IF k = "0" THEN <<"race", "Hispanic">> ELSE <<"load">>] }

ActionsMaps ==
    { empty_dict, [k \in ActionKeys |-> IF k = "0" THEN "stay" ELSE "go"] }

is_categorical(parts) == Len(parts) > 1
extract_categorical_condition_name(parts) == parts[1]
extract_categorical_condition_category(parts) == parts[2]

\* Condition._condition_part_to_string
condition_part_to_string(coeff, key, lookback, exponent, states) ==
    format_decimal(coeff) \o "*"
        \o (IF key \in DOMAIN states THEN name_string(states[key]) ELSE key)
        \o (IF lookback > 0 THEN "[" \o str(lookback) \o "]" ELSE "")
        \o (IF exponent > 1 THEN "^" \o str(exponent) ELSE "")

\* min_maxes.get(first_state_key, {}): a string key is no key of a
\* dictionary keyed by tuples
state_dict(mm, key) ==
    IF mm.shape = "nested" /\ key \in DOMAIN mm.items THEN <<mm.items[key]>> ELSE <<>>

\* The right-hand side of a condition with a literal and a calibration:
\* min_value and max_value are None when the state has no entry, and the
\* arithmetic on None raises TypeError
rescaled_to_string(c, entry) ==
    IF entry = <<>> THEN [raised |-> "TypeError", string |-> ""]
    ELSE [raised |-> "",
          string |-> format_decimal(entry[1].min * GRANULARITY
                         + c.second_state_value * (entry[1].max - entry[1].min))
                     \o " {" \o float_str(entry[1].min) \o ".."
                     \o float_str(entry[1].max) \o "}"]

\* The second operand of continuous_to_string
second_condition(c, mm, states) ==
    IF c.second_state_key \in DOMAIN states
    THEN [raised |-> "",
          string |-> condition_part_to_string(c.second_state_coefficient,
                         c.second_state_key, c.second_state_lookback,
                         c.second_state_exponent, states)]
    ELSE IF mm.items # empty_dict
    THEN rescaled_to_string(c, state_dict(mm, c.first_state_key))
    ELSE [raised |-> "", string |-> format_decimal(c.second_state_value)]

\* The string of a continuous condition, second being its second operand
continuous_joined(c, states, second) ==
    IF second.raised # "" THEN second
    ELSE [raised |-> "",
          string |-> condition_part_to_string(c.first_state_coefficient,
                         c.first_state_key, c.first_state_lookback,
                         c.first_state_exponent, states)
                     \o " " \o c.operator \o " " \o second.string]

\* Condition.continuous_to_string
continuous_to_string(c, mm, states) ==
    continuous_joined(c, states, second_condition(c, mm, states))

\* Condition.categorical_to_string
categorical_to_string(c, states) ==
    [raised |-> "",
     string |-> extract_categorical_condition_name(states[c.first_state_key])
                \o (IF c.first_state_lookback > 0
                    THEN "[" \o str(c.first_state_lookback) \o "]" ELSE "")
                \o " " \o (IF c.operator = LESS_THAN THEN "is not" ELSE "is")
                \o " " \o extract_categorical_condition_category(states[c.first_state_key])]

\* Condition.to_string
condition_to_string(c, states, mm) ==
    IF states # empty_dict /\ is_categorical(states[c.first_state_key])
    THEN categorical_to_string(c, states)
    ELSE continuous_to_string(c, mm, states)

\* acc + sep + more, unless one of them raised
appended_string(acc, sep, more) ==
    IF acc.raised # "" THEN acc
    ELSE IF more.raised # "" THEN more
    ELSE [raised |-> "", string |-> acc.string \o sep \o more.string]

\* The strings of the conditions of a rule from the n-th on, after acc
RECURSIVE conditions_to_string(_, _, _, _, _)
conditions_to_string(conditions, n, states, mm, acc) ==
    IF n > Len(conditions) \/ acc.raised # "" THEN acc
    ELSE conditions_to_string(conditions, n + 1, states, mm,
             appended_string(acc, IF n > 1 THEN " " ELSE "",
                             condition_to_string(conditions[n], states, mm)))

\* Rule.to_string: the conditions in order, then the action by its name
rule_to_string(r, states, actions, mm) ==
    appended_string(conditions_to_string(r.conditions, 1, states, mm,
                                         [raised |-> "", string |-> ""]),
                    " --> ",
                    [raised |-> "",
                     string |-> IF r.action \in DOMAIN actions
                                THEN actions[r.action] ELSE r.action])

\* for rule in self.rules, from the n-th on
RECURSIVE rules_to_string(_, _, _, _, _)
rules_to_string(self, n, states, actions, acc) ==
    IF n > Len(self.rules) \/ acc.raised # "" THEN acc
    ELSE rules_to_string(self, n + 1, states, actions,
             appended_string(appended_string(acc, "",
                                 rule_to_string(self.rules[n], states, actions,
                                                self.min_maxes)),
                             "\n", [raised |-> "", string |-> ""]))

\* The last line of RuleSet.to_string
default_action_line(self, actions) ==
    [raised |-> "",
     string |-> (IF self.times_applied > 0
                 THEN " <" \o str(self.times_applied) \o "> " ELSE " <> ")
                \o "Default Action: "
                \o format_decimal(self.default_action_coefficient) \o "*"
                \o (IF self.default_action \in DOMAIN actions
                    THEN actions[self.default_action] ELSE self.default_action)
                \o "\n"]

\* RuleSet.to_string
rule_set_to_string(self, states, actions) ==
    appended_string(rules_to_string(self, 1, states, actions,
                                    [raised |-> "", string |-> ""]),
                    "", default_action_line(self, actions))

\* Mutant: rendering counts as an application
rendered_self_counted(self) ==
    IF "times_applied" \in DOMAIN self
    THEN [self EXCEPT !.times_applied = @ + 1]
    ELSE self

\* The entity as to_string leaves it: the methods assign to no field
rendered_self(self) == self

RenderInit ==
    /\ rule_set \in RenderedRuleSets
    /\ ret = NoCall
    /\ condition = NoCondition
    /\ rule = NoRule
    /\ observation_history = <<>>
    /\ min_maxes = FullCalibration
    /\ OutsideIdle

\* What a call of to_string returns or raises; the result of the call just
\* before is kept when that call was the same call
Rendered(call, out) ==
    ret' = [op |-> "to_string", call |-> call, before |-> rule_set, out |-> out,
            previous |-> IF ret.op = "to_string" /\ ret.call = call
                         THEN <<ret.out>> ELSE <<>>]

\* rule_set.to_string(states, actions)
RuleSetToString(states, actions) ==
    /\ Rendered([entity |-> "rule_set", states |-> states, actions |-> actions],
                rule_set_to_string(rule_set, states, actions))
    /\ rule_set' = rendered_self(rule_set)
    /\ UNCHANGED <<condition, rule, observation_history, min_maxes>>
    /\ UNCHANGED outside

\* to_string(states, min_maxes) of the first condition of the first rule
ConditionToString(states) ==
    /\ rule_set.rules # <<>>
    /\ rule_set.rules[1].conditions # <<>>
    /\ Rendered([entity |-> "condition", states |-> states, actions |-> empty_dict],
                condition_to_string(rule_set.rules[1].conditions[1], states,
                                    rule_set.min_maxes))
    /\ rule_set' = [rule_set EXCEPT !.rules[1].conditions[1] = rendered_self(@)]
    /\ UNCHANGED <<condition, rule, observation_history, min_maxes>>
    /\ UNCHANGED outside

RenderNext ==
    \E states \in StatesMaps :
        \/ \E actions \in ActionsMaps : RuleSetToString(states, actions)
        \/ ConditionToString(states)

RenderSpec == RenderInit /\ [][RenderNext]_vars

----------------------------------------------------------------------------
(* Concurrent calls of RuleEvaluator.evaluate through one evaluator.        *)
(* A call runs in steps between which the other threads may run: the loop   *)
(* over the conditions and the lookback check, which only read; the read of *)
(* rule.times_applied; the write of the value read plus one; the return.    *)

Threads == {"t1", "t2"}
RuleInstances == {1, 2}
MaxCalls == 1

\* The rules the threads evaluate: without condition, or with one condition
\* on state "0" now; acting now or deferring
ConcurrentRules ==
    {r \in Rules :
        /\ Len(r.conditions) =< 1
        /\ \A i \in 1 .. Len(r.conditions) :
               ~HasSecondState(r.conditions[i]) /\ r.conditions[i].first_state_lookback = 0
        /\ r.action = "0"}

\* The histories the calls are given
ConcurrentHistories ==
    {h \in Histories :
        \A i \in 1 .. Len(h) : h[i]["1"] = 0 /\ (i < Len(h) => h[i]["0"] = 0)}

\* RuleEvaluator.__init__: the evaluator holds a ConditionEvaluator and
\* nothing else
new_evaluator == [condition_evaluator |-> "ConditionEvaluator"]

IdleThread ==
    [pc |-> "idle", rule |-> NoObject, history |-> <<>>, before |-> NoRule,
     loaded |-> 0, calls |-> 0, concurrent |-> FALSE, overlapped |-> FALSE,
     out |-> <<>>]

Active(t) == threads[t].pc # "idle"

\* The threads in a call when t enters its own, and those of them on rule a
Others(t) == {u \in Threads \ {t} : Active(u)}
OthersOn(t, a) == {u \in Others(t) : threads[u].rule = a}

\* Mutant: the counter is advanced by two
incremented_twice(loaded) == loaded + 2

\* The value `rule.times_applied += 1` computes from the value it read
incremented(loaded) == loaded + 1

\* Mutant: the value is written to the first rule whatever rule the call is on
store_times_applied_first(rules, a, value) ==
    [rules EXCEPT ![1].times_applied = value]

\* The write of `rule.times_applied += 1` on the rule at address a
store_times_applied(rules, a, value) ==
    [rules EXCEPT ![a].times_applied = value]

\* Where a call goes after its loop over the conditions came to loop and its
\* lookback check: on to the increment, or out with NoMatch or an exception
entered(t, a, history, loop) ==
    IF loop = "hold" /\ ~lookback_unavailable(instances[a], Len(history) - 1)
    THEN [pc |-> "load", out |-> <<>>]
    ELSE [pc |-> "idle",
          out |-> << [raised |-> IF loop \in {"hold", "fail"} THEN "" ELSE loop,
                      result |-> NO_MATCH,
                      left |-> instances[a].times_applied] >>]

ConcInit ==
    /\ instances \in [RuleInstances -> ConcurrentRules]
    /\ threads = [t \in Threads |-> IdleThread]
    /\ evaluator = new_evaluator
    /\ fired = [a \in RuleInstances |-> 0]
    /\ racy = [a \in RuleInstances |-> FALSE]
    /\ ret = NoCall
    /\ condition = NoCondition
    /\ rule = NoRule
    /\ rule_set = NoRuleSet
    /\ observation_history = <<>>
    /\ min_maxes = FullCalibration
    /\ ConfigHelperIdle
    /\ ConstructionIdle
    /\ PersistenceIdle
    /\ BoundIdle
    /\ SessionIdle

\* The threads after t entered a call on rule a that goes to next: the calls
\* in progress are marked as having run beside another call, and those on
\* the same rule as having shared it
Entered(t, a, history, next) ==
    /\ threads' =
          [u \in Threads |->
              IF u = t
              THEN [pc |-> next.pc, rule |-> a, history |-> history,
                    before |-> instances[a], loaded |-> 0,
                    calls |-> threads[t].calls + 1,
                    concurrent |-> Others(t) # {},
                    overlapped |-> OthersOn(t, a) # {},
                    out |-> next.out]
              ELSE IF u \in Others(t)
              THEN [threads[u] EXCEPT !.concurrent = TRUE,
                                      !.overlapped = @ \/ u \in OthersOn(t, a)]
              ELSE threads[u]]
    /\ racy' = [racy EXCEPT ![a] = @ \/ OthersOn(t, a) # {}]

\* evaluate(rule, evaluation_data) is entered by thread t: the loop over the
\* conditions and the lookback check
Call(t, a, history) ==
    /\ ~Active(t)
    /\ threads[t].calls < MaxCalls
    /\ Entered(t, a, history,
               entered(t, a, history,
                       conditions_loop(instances[a].conditions, 1, history, min_maxes)))
    /\ UNCHANGED <<instances, evaluator, fired>>
    /\ UNCHANGED <<rule_based, ret, config_helper, construction, persistence, bound, session>>

\* `rule.times_applied += 1`: the read
Load(t) ==
    /\ threads[t].pc = "load"
    /\ threads' = [threads EXCEPT ![t].pc = "store",
                                  ![t].loaded = instances[threads[t].rule].times_applied]
    /\ UNCHANGED <<instances, evaluator, fired, racy>>
    /\ UNCHANGED <<rule_based, ret, config_helper, construction, persistence, bound, session>>

\* `rule.times_applied += 1`: the write
Store(t) ==
    /\ threads[t].pc = "store"
    /\ instances' = store_times_applied(instances, threads[t].rule,
                                        incremented(threads[t].loaded))
    /\ threads' = [threads EXCEPT ![t].pc = "return"]
    /\ UNCHANGED <<evaluator, fired, racy>>
    /\ UNCHANGED <<rule_based, ret, config_helper, construction, persistence, bound, session>>

\* The return of a call in which the rule fired
Return(t) ==
    /\ threads[t].pc = "return"
    /\ threads' = [threads EXCEPT
           ![t].pc = "idle",
           ![t].out = << [raised |-> "",
                          result |-> action_indicator(instances[threads[t].rule]),
                          left |-> instances[threads[t].rule].times_applied] >>]
    /\ fired' = [fired EXCEPT ![threads[t].rule] = @ + 1]
    /\ UNCHANGED <<instances, evaluator, racy>>
    /\ UNCHANGED <<rule_based, ret, config_helper, construction, persistence, bound, session>>

ConcNext ==
    \E t \in Threads :
        \/ \E a \in RuleInstances : \E history \in ConcurrentHistories :
               Call(t, a, history)
        \/ Load(t)
        \/ Store(t)
        \/ Return(t)

ConcSpec == ConcInit /\ [][ConcNext]_vars

----------------------------------------------------------------------------
(* Claims about RuleEvaluator.evaluate, checked under Spec *)

Evaluated == ret.op = "evaluate"

\* Every condition of rule r, evaluated on its own, is true on the history
ConditionsHold(r, history, mm) ==
    \A i \in 1 .. Len(r.conditions) :
        LET e == condition_evaluate(r.conditions[i], history, mm)
        IN  e.raised = "" /\ e.value

\* The calibration every literal condition of r needs is there
RuleCalibrated(r, mm) ==
    \A i \in 1 .. Len(r.conditions) :
        HasSecondState(r.conditions[i]) \/ Calibrated(r.conditions[i], mm)

\* C1: evaluate on a rule with action_lookback = 0 whose conditions all hold
\* on the history returns [rule.action, 0] and leaves times_applied one
\* greater than it was.
C1_ActionWhenConditionsHold ==
    (Evaluated /\ ret.before.action_lookback = 0
        /\ ConditionsHold(ret.before, ret.history, min_maxes))
      => /\ ret.raised = ""
         /\ ret.result = <<ret.before.action, 0>>
         /\ rule.times_applied = ret.before.times_applied + 1
         /\ rule = [ret.before EXCEPT !.times_applied = @ + 1]

\* A rule of two conditions, already applied once, fires again
C1_Witness ==
    /\ Evaluated
    /\ ret.before.action_lookback = 0
    /\ Len(ret.before.conditions) = 2
    /\ ConditionsHold(ret.before, ret.history, min_maxes)
    /\ ret.before.times_applied = 1
    /\ ret.result = <<"1", 0>>
    /\ rule.times_applied = 2

\* C2: with len(history) - 1 < action_lookback, evaluate returns
\* [NO_ACTION, 0] whether or not the conditions hold and does not count an
\* application (the calibration the rule's literals need being there, so that
\* the call returns).
C2_NoMatchWithoutLookbackHistory ==
    (Evaluated /\ Len(ret.history) - 1 < ret.before.action_lookback)
      => /\ rule = ret.before
         /\ ret.raised = "" => ret.result = NO_MATCH
         /\ RuleCalibrated(ret.before, min_maxes) => ret.raised = ""

\* The conditions (there are some) all hold and the history is still too
\* short for the action lookback
C2_Witness ==
    /\ Evaluated
    /\ Len(ret.history) - 1 < ret.before.action_lookback
    /\ Len(ret.before.conditions) > 0
    /\ ConditionsHold(ret.before, ret.history, min_maxes)
    /\ ret.result = NO_MATCH
    /\ rule.times_applied = 0

\* C3: whenever evaluate returns [NO_ACTION, 0], every field of the rule,
\* times_applied included, is as it was before the call.
C3_NoMatchLeavesRule ==
    (Evaluated /\ ret.raised = "" /\ ret.result = NO_MATCH)
      => rule = ret.before

\* A rule that was applied before does not match now, its second condition
\* being false on the longer history
C3_Witness ==
    /\ Evaluated
    /\ ret.raised = ""
    /\ ret.result = NO_MATCH
    /\ Len(ret.before.conditions) = 2
    /\ condition_evaluate(ret.before.conditions[1], ret.history, min_maxes).value
    /\ ~condition_evaluate(ret.before.conditions[2], ret.history, min_maxes).value
    /\ ret.before.times_applied > 0
    /\ rule.times_applied = ret.before.times_applied

\* C4: evaluate on a rule with action_lookback = L > 0 whose conditions all
\* hold, on a history with len - 1 >= L, returns [LOOK_BACK, L], not the
\* rule's action, and leaves times_applied one greater than it was.
C4_DeferredAction ==
    (Evaluated /\ ret.before.action_lookback > 0
        /\ Len(ret.history) - 1 >= ret.before.action_lookback
        /\ ConditionsHold(ret.before, ret.history, min_maxes))
      => /\ ret.raised = ""
         /\ ret.result = <<LOOK_BACK, ret.before.action_lookback>>
         /\ ret.result[1] # ret.before.action
         /\ rule = [ret.before EXCEPT !.times_applied = @ + 1]

C4_Witness ==
    /\ Evaluated
    /\ ret.before.action_lookback > 0
    /\ Len(ret.history) - 1 >= ret.before.action_lookback
    /\ Len(ret.before.conditions) > 0
    /\ ConditionsHold(ret.before, ret.history, min_maxes)
    /\ ret.result = <<LOOK_BACK, ret.before.action_lookback>>
    /\ rule.times_applied = ret.before.times_applied + 1

----------------------------------------------------------------------------
(* Claims about the vote of a rule set, checked under SetSpec *)

BindingEvaluated == ret.op = "binding_evaluate"

\* No rule of the set fires on the first k samples of the data
NoRuleFires(rs, data, k, mm) ==
    \A i \in 1 .. Len(rs.rules) :
        evaluate(rs.rules[i], SubSeq(data, 1, k), mm).result = NO_MATCH

\* C10: for a sample on which no rule of the set fires, the default action
\* gets exactly one vote of weight default_action_coefficient: its reported
\* score is default_action_coefficient and that of every other action is 0.0.
C10_DefaultActionWhenNoRuleFires ==
    BindingEvaluated =>
        \A k \in 1 .. Len(ret.sample_actions) :
            NoRuleFires(ret.before, ret.data, k, min_maxes) =>
                LET poll == ret.polls[k]
                    scores == ret.sample_actions[k]
                    d == ret.before.default_action
                IN  /\ poll[d].count = 1
                    /\ poll[d].coefficient_sum = ret.before.default_action_coefficient
                    /\ scores[d].num = ret.before.default_action_coefficient * scores[d].den
                    /\ \A a \in ActionKeys \ {d} :
                           poll[a].count = 0 /\ scores[a].num = 0

\* Two rules, each with a condition that is false on the sample, and a
\* default coefficient of 0.5
C10_Witness ==
    /\ BindingEvaluated
    /\ Len(ret.before.rules) = 2
    /\ \A i \in 1 .. 2 : Len(ret.before.rules[i].conditions) = 1
    /\ Len(ret.sample_actions) > 0
    /\ NoRuleFires(ret.before, ret.data, 1, min_maxes)
    /\ ret.before.default_action = "1"
    /\ ret.before.default_action_coefficient = 50
    /\ ret.sample_actions[1]["1"] = [num |-> 50, den |-> 1]
    /\ ret.sample_actions[1]["0"] = [num |-> 0, den |-> 1]

\* The action the i-th rule of the set votes for on the first k samples of
\* the data, NO_ACTION when it does not fire
RuleVote(rs, i, data, k, mm, past) ==
    voted_action(evaluate(rs.rules[i], SubSeq(data, 1, k), mm), past)

\* The rules of the set that fire for action a on the first k samples
RulesFiredFor(rs, a, data, k, mm, past) ==
    {i \in 1 .. Len(rs.rules) : RuleVote(rs, i, data, k, mm, past) = a}

\* C11: the score reported for an action is coefficient_sum / count when
\* count > 0 and 0.0 when count = 0; no division by zero is performed, for
\* any vote table choose_action produces.
C11_ScoreIsAverageOrZero ==
    BindingEvaluated =>
        \A k \in 1 .. Len(ret.sample_actions) : \A a \in ActionKeys :
            LET entry == ret.polls[k][a]
                s == ret.sample_actions[k][a]
            IN  /\ s.den # 0
                /\ entry.count > 0 =>
                       s.num * entry.count = entry.coefficient_sum * s.den
                /\ entry.count = 0 => s.num = 0

\* Two rules vote action "0" with weight 1.0 each: its score is 2.0 / 2 and
\* that of action "1", which has no vote, is 0.0
C11_Witness ==
    /\ BindingEvaluated
    /\ Len(ret.before.rules) = 2
    /\ Len(ret.sample_actions) > 0
    /\ RulesFiredFor(ret.before, "0", ret.data, 1, min_maxes, ret.past) = {1, 2}
    /\ ret.polls[1]["0"] = [count |-> 2, coefficient_sum |-> 2 * GRANULARITY]
    /\ ret.sample_actions[1]["0"] = [num |-> 2 * GRANULARITY, den |-> 2]
    /\ ret.polls[1]["1"].count = 0
    /\ ret.sample_actions[1]["1"].num = 0

\* The votes the table of sample k should hold for action a: one for each
\* rule that fired for it, and the vote of the default action when no rule
\* of the set fired
DefaultVotes(rs, a, data, k, mm) ==
    IF a = rs.default_action /\ NoRuleFires(rs, data, k, mm) THEN 1 ELSE 0

\* C12 as stated: the vote table has one entry for each known action and the
\* count of each action is the number of rules that fired for it.
C12_Original ==
    BindingEvaluated =>
        \A k \in 1 .. Len(ret.polls) :
            /\ DOMAIN ret.polls[k] = ActionKeys
            /\ \A a \in ActionKeys :
                   ret.polls[k][a].count =
                       Cardinality(RulesFiredFor(ret.before, a, ret.data, k,
                                                 min_maxes, ret.past))

\* C12, amended: the vote table has one entry for each known action; the
\* count of each action is the number of rules that fired for it, plus one
\* for the default action when no rule of the set fired.
C12_VoteCounts ==
    BindingEvaluated =>
        \A k \in 1 .. Len(ret.polls) :
            /\ DOMAIN ret.polls[k] = ActionKeys
            /\ \A a \in ActionKeys :
                   ret.polls[k][a].count =
                       Cardinality(RulesFiredFor(ret.before, a, ret.data, k,
                                                 min_maxes, ret.past))
                       + DefaultVotes(ret.before, a, ret.data, k, min_maxes)

\* Two rules agree on action "0": the table is {"0": 2, "1": 0}
C12_Witness ==
    /\ BindingEvaluated
    /\ Len(ret.before.rules) = 2
    /\ Len(ret.polls) > 0
    /\ \A i \in 1 .. 2 : ret.before.rules[i].action_lookback = 0
    /\ \A i \in 1 .. 2 : ret.before.rules[i].action = "0"
    /\ ret.polls[1]["0"].count = 2
    /\ ret.polls[1]["1"].count = 0
    /\ ret.polls[1]["1"].coefficient_sum = 0

----------------------------------------------------------------------------
(* Claims about Condition.parse, checked under CondSpec *)

Parsed == ret.op = "parse"
NbStates == Len(observation_history) - 1

\* C5: with len(history) - 1 < first_state_lookback the evaluation of a
\* condition returns false, raises nothing and subscripts no element of the
\* history, whatever the condition's second operand and the calibration.
C5_InsufficientHistoryIsFalse ==
    (Parsed /\ NbStates < condition.first_state_lookback)
        => /\ ret.out.raised = ""
           /\ ret.out.value = FALSE
           /\ ret.out.reads = {}

\* The case of C5 in which reading on would have raised: a literal condition
\* whose first state has no calibration, on a history shorter than its lookback
C5_Witness ==
    /\ Parsed
    /\ NbStates < condition.first_state_lookback
    /\ NbStates >= condition.second_state_lookback
    /\ ~HasSecondState(condition)
    /\ ~Calibrated(condition, min_maxes)
    /\ ret.out.value = FALSE

\* The literal threshold of condition c rescaled into the range of its FIRST
\* state, in units of 1/GRANULARITY
RescaledThreshold(c, mm) ==
    mm[<<c.first_state_key, MIN_KEY>>] * GRANULARITY
        + c.second_state_value
            * (mm[<<c.first_state_key, MAX_KEY>>] - mm[<<c.first_state_key, MIN_KEY>>])

\* The example of the specification: temp = 60, coefficient 1.0, operator >=,
\* second_state_value 0.5, calibration min 0 max 100
ExampleCondition ==
    [first_state_key |-> "0", first_state_lookback |-> 0,
     first_state_coefficient |-> 100, operator |-> GREATER_THAN_EQUAL,
     second_state_key |-> LITERAL_KEY, second_state_lookback |-> 0,
     second_state_value |-> 50, second_state_coefficient |-> 100]
ExampleHistory == << [k \in StateKeys |-> 0], [k \in StateKeys |-> IF k = "0" THEN 60 ELSE 0] >>
ExampleCalibration ==
    [k \in {"0"} \X {MIN_KEY, MAX_KEY} |-> IF k[2] = MIN_KEY THEN 0 ELSE 100]

\* C6: whenever a condition with a literal second operand is compared (the
\* history reaches back far enough for the evaluation to get to the
\* comparison), the right-hand side is min + second_state_value * (max - min)
\* with min and max the calibration of the first state key; in the example
\* the threshold is 50 and 60 >= 50 is true.
C6_LiteralRescaledByFirstState ==
    /\ (Parsed /\ ~HasSecondState(condition)
            /\ ~InsufficientHistory(condition, NbStates)
            /\ Calibrated(condition, min_maxes))
          => /\ ret.out.compared
             /\ ret.out.operand_2 = RescaledThreshold(condition, min_maxes)
    /\ (Parsed /\ ~HasSecondState(condition) /\ ret.out.compared)
          => /\ NbStates >= condition.first_state_lookback
             /\ Calibrated(condition, min_maxes)
             /\ ret.out.operand_2 = RescaledThreshold(condition, min_maxes)
    /\ LET example == parse(ExampleCondition, ExampleHistory, ExampleCalibration)
       IN  /\ example.operand_2 = 50 * GRANULARITY
           /\ example.operand_1 = 60 * GRANULARITY
           /\ example.value = TRUE

\* A literal on state "1", whose range 0..2 differs from that of state "0":
\* 0.5 rescales to 1.0
C6_Witness ==
    /\ Parsed
    /\ ~HasSecondState(condition)
    /\ condition.first_state_key = "1"
    /\ condition.second_state_value = 50
    /\ ret.out.compared
    /\ ret.out.operand_2 = 1 * GRANULARITY

\* left of the comparison, in units of 1/GRANULARITY
LeftOperand ==
    observation_history[NbStates - condition.first_state_lookback + 1]
        [condition.first_state_key] * condition.first_state_coefficient

\* C7: when the history suffices for the evaluation to reach the comparison,
\* the result is left OP right: < and > are strict, <= and >= inclusive, with
\* left = history[n - first_state_lookback][first_state_key] *
\* first_state_coefficient.
C7_OperatorSemantics ==
    (Parsed /\ ret.out.compared) =>
        LET left == LeftOperand
            right == ret.out.operand_2
        IN  /\ ret.out.operand_1 = left
            /\ condition.operator = LESS_THAN
                  => (ret.out.value <=> (left < right))
            /\ condition.operator = LESS_THAN_EQUAL
                  => (ret.out.value <=> (left < right \/ left = right))
            /\ condition.operator = GREATER_THAN
                  => (ret.out.value <=> (right < left))
            /\ condition.operator = GREATER_THAN_EQUAL
                  => (ret.out.value <=> (right < left \/ left = right))

\* Equal operands under a strict operator: a non-zero left equal to the
\* right, compared with >, gives false
C7_Witness ==
    /\ Parsed
    /\ ret.out.compared
    /\ ret.out.operand_1 = ret.out.operand_2
    /\ ret.out.operand_1 > 0
    /\ condition.operator = GREATER_THAN
    /\ ret.out.value = FALSE

\* C8: a condition whose operator is none of <, <=, >, >= (an unset operator
\* included) is never evaluated to a boolean: where the history and the
\* calibration let the evaluation reach the comparison, it ends in an error.
C8_BadOperatorRejected ==
    (Parsed /\ condition.operator \notin OPERATORS
        /\ ~InsufficientHistory(condition, NbStates)
        /\ (HasSecondState(condition) \/ Calibrated(condition, min_maxes)))
      => ret.out.raised # ""

\* C9 as claimed: evaluating a literal condition whose first state lacks a min
\* or max calibration entry fails with an error.
C9_Original ==
    (Parsed /\ ~HasSecondState(condition) /\ ~Calibrated(condition, min_maxes))
        => ret.out.raised # ""

\* C9 amended: evaluating a literal condition whose first state lacks a min
\* or max calibration entry raises KeyError when the history suffices for both
\* lookbacks, and returns false for want of history otherwise; in neither
\* case is anything compared with a threshold.
C9_MissingCalibration ==
    (Parsed /\ ~HasSecondState(condition) /\ ~Calibrated(condition, min_maxes))
        => /\ ~ret.out.compared
           /\ IF InsufficientHistory(condition, NbStates)
              THEN ret.out.raised = "" /\ ret.out.value = FALSE
              ELSE ret.out.raised = "KeyError"

\* A partial calibration (min without max) and enough history: KeyError
C9_Witness ==
    /\ Parsed
    /\ ~HasSecondState(condition)
    /\ <<condition.first_state_key, MIN_KEY>> \in DOMAIN min_maxes
    /\ <<condition.first_state_key, MAX_KEY>> \notin DOMAIN min_maxes
    /\ ~InsufficientHistory(condition, NbStates)
    /\ ret.out.raised = "KeyError"

----------------------------------------------------------------------------
(* Claims about RuleSetConfigHelper, checked under EncodeSpec *)

Encoded == ret.op = "encode"

\* The entries a variable stands for: size when size > 1, otherwise 1
Entries(var_item) == IF var_item.size > 1 THEN var_item.size ELSE 1

\* The entries of the first j variables of the schema
RECURSIVE EntriesUpTo(_, _)
EntriesUpTo(schema, j) ==
    IF j = 0 THEN 0 ELSE EntriesUpTo(schema, j - 1) + Entries(schema[j])

\* Every variable with size > 1 has 'values', and size of them at least
WellFormed(schema) ==
    \A j \in 1 .. Len(schema) :
        schema[j].size > 1 =>
            /\ "values" \in DOMAIN schema[j]
            /\ Len(schema[j].values) >= schema[j].size

\* C13: the keys of the mapping returned are exactly the strings "0" ..
\* str(N-1), N being the sum over the variables of size when size > 1 and 1
\* otherwise, without gap or duplicate; the same input yields the same
\* mapping again.
C13_KeysAreZeroToN ==
    Encoded =>
        /\ WellFormed(config_vars) => ret.out.raised = ""
        /\ ret.out.raised = "" =>
               LET N == EntriesUpTo(config_vars, Len(config_vars))
                   var == ret.out.var[1]
               IN  /\ DOMAIN var = {str(n) : n \in 0 .. N - 1}
                   /\ Cardinality(DOMAIN var) = N
        /\ ret.previous # <<>> => ret.previous[1] = ret.out

\* Two categorical variables with twelve entries between them, encoded for
\* the second time: the keys run to "11"
C13_Witness ==
    /\ Encoded
    /\ ret.out.raised = ""
    /\ Len(config_vars) = 2
    /\ EntriesUpTo(config_vars, 2) = 12
    /\ "11" \in DOMAIN ret.out.var[1]
    /\ "12" \notin DOMAIN ret.out.var[1]
    /\ ret.previous = <<ret.out>>

\* C14: the variables are enumerated in input order: a variable with
\* size > 1 gives size consecutive entries named name + marker + values[i],
\* i = 0 .. size-1 in order, a variable with size 1 one entry named name.
C14_EnumerationInInputOrder ==
    (Encoded /\ ret.out.raised = "") =>
        \A j \in 1 .. Len(config_vars) :
            LET var_item == config_vars[j]
                first == EntriesUpTo(config_vars, j - 1)
                var == ret.out.var[1]
            IN  IF var_item.size > 1
                THEN \A i \in 0 .. var_item.size - 1 :
                        var[str(first + i)] =
                            var_item.name \o CATEGORY_EXPLAINABLE_MARKER
                                          \o var_item.values[i + 1]
                ELSE var[str(first)] = var_item.name

\* [{context, size 1}, {mode, size 2, values [A, B]}]
ExampleSchema ==
    << [name |-> "context", size |-> 1],
       [name |-> "mode", size |-> 2, values |-> <<"A", "B">>] >>

C14_Witness ==
    /\ Encoded
    /\ config_vars = ExampleSchema
    /\ ret.out.raised = ""
    /\ DOMAIN ret.out.var[1] = {"0", "1", "2"}
    /\ ret.out.var[1]["0"] = "context"
    /\ ret.out.var[1]["1"] = "mode_is_category_A"
    /\ ret.out.var[1]["2"] = "mode_is_category_B"

----------------------------------------------------------------------------
(* Claims about RuleSet.__init__, checked under CopySpec *)

Constructed == ret.op # "none"

\* C16: a RuleSet constructed with a min_maxes map has a deep copy of its
\* own: it holds what the caller's map held, shares no object with it at any
\* nesting level, and afterwards no change to the set's map shows in the
\* caller's and no change to the caller's shows in the set's.
C16_MinMaxesDeepCopied ==
    (Constructed /\ caller_min_maxes # NoObject) =>
        /\ Reach(heap, rule_set.min_maxes) \cap Reach(heap, caller_min_maxes) = {}
        /\ ret.op = "construct" =>
               Contents(heap, rule_set.min_maxes, "")
                   = Contents(heap, caller_min_maxes, "")
        /\ ret.op = "caller" =>
               Contents(heap, rule_set.min_maxes, "") = ret.set_before
        /\ ret.op = "set" =>
               Contents(heap, caller_min_maxes, "") = ret.caller_before

\* The caller's map has a list in it; the set's copy of the list has been
\* assigned to and the caller's list is as it was
C16_Witness ==
    /\ Constructed
    /\ caller_min_maxes # NoObject
    /\ ret.op = "set"
    /\ <<"0.min/1", 1>> \in ret.set_before
    /\ <<"0.min/1", 0>> \in Contents(heap, rule_set.min_maxes, "")
    /\ <<"0.min/1", 1>> \in Contents(heap, caller_min_maxes, "")

----------------------------------------------------------------------------
(* Claims about saving and loading, checked under PersistSpec *)

\* C17: an agent saved to a file and loaded back from it is an object equal
\* to the original, every field of its rules and conditions reproduced value
\* for value.
C17_RoundTrip ==
    (ret.op = "restore" /\ ret.saved) =>
        /\ ret.raised = ""
        /\ ret.obj = <<rule_set>>

----------------------------------------------------------------------------
(* Claims about rendering, checked under RenderSpec *)

RenderedNow == ret.op = "to_string"

----------------------------------------------------------------------------
(* Claims about concurrent evaluation, checked under ConcSpec *)

\* Thread t has come back from a call
Returned_call(t) == ~Active(t) /\ threads[t].out # <<>>

\* No call is in progress on the rule at address a
Quiescent(a) == \A t \in Threads : Active(t) => threads[t].rule # a

\* C19: a call that runs beside other calls through the shared evaluator,
\* none of them on its own rule, returns what it returns when run alone and
\* leaves the times_applied of its rule as it does when run alone; the calls
\* change nothing in the evaluator.
C19_DistinctRulesAsAlone ==
    /\ evaluator = new_evaluator
    /\ \A t \in Threads :
           (Returned_call(t) /\ ~threads[t].overlapped) =>
               /\ threads[t].out[1].raised =
                      evaluate(threads[t].before, threads[t].history, min_maxes).raised
               /\ threads[t].out[1].result =
                      evaluate(threads[t].before, threads[t].history, min_maxes).result
               /\ threads[t].out[1].left =
                      evaluate(threads[t].before, threads[t].history,
                               min_maxes).rule.times_applied

\* Two calls have run beside each other on two rules, and each rule fired
\* and was counted
C19_Witness ==
    /\ \A t \in Threads :
           /\ Returned_call(t)
           /\ threads[t].concurrent
           /\ ~threads[t].overlapped
           /\ threads[t].out[1].result # NO_MATCH
           /\ threads[t].out[1].left = threads[t].before.times_applied + 1
    /\ threads["t1"].rule # threads["t2"].rule

\* C20: the update of times_applied is an unsynchronized read-modify-write.
\* With no call in progress on a rule, its times_applied is its initial value
\* (0) plus the number of calls in which the rule fired as long as no two
\* calls on the rule ran beside each other, and may be smaller, never
\* greater, once two did.
C20_CountReflectsFiringsUnderSingleWriter ==
    \A a \in RuleInstances :
        Quiescent(a) =>
            /\ instances[a].times_applied =< fired[a]
            /\ ~racy[a] => instances[a].times_applied = fired[a]

\* A lost update: two calls on the same rule ran beside each other, the rule
\* fired in both and was counted once
C20_Witness ==
    \E a \in RuleInstances :
        /\ Quiescent(a)
        /\ racy[a]
        /\ fired[a] = 2
        /\ instances[a].times_applied = 1

\* C25: for a literal second operand the insufficient-history check uses
\* first_state_lookback only: with len(history) - 1 >= first_state_lookback
\* (and the first state calibrated) the result is left OP right, whatever the
\* condition's second_state_lookback.
C25_LiteralIgnoresSecondLookback ==
    (Parsed /\ ~HasSecondState(condition)
        /\ NbStates >= condition.first_state_lookback
        /\ Calibrated(condition, min_maxes))
      => ret.out.value = Compare(condition.operator, LeftOperand,
                                 RescaledThreshold(condition, min_maxes))

----------------------------------------------------------------------------
(* The times_applied counter over a sequence of calls, checked under Spec *)

\* C29: with one caller at a time, after any sequence of RuleEvaluator.evaluate
\* calls on a rule its times_applied is its initial value plus the number of
\* those calls that returned an action or a lookback indicator; the last call
\* changed it by 1 when it returned one of these and by 0 otherwise, and it
\* never went down.
C29_TimesAppliedCountsMatches ==
    Evaluated =>
        /\ rule.times_applied = ret.initial + ret.matched
        /\ rule.times_applied - ret.before.times_applied
              = (IF ret.raised = "" /\ ret.result # NO_MATCH THEN 1 ELSE 0)
        /\ rule.times_applied >= ret.before.times_applied
        /\ ret.before.times_applied >= ret.initial

\* Of the calls made on a rule, one returned the rule's action or lookback and
\* the last one, on a longer history, did not match: the count stays at one
C29_Witness ==
    /\ Evaluated
    /\ ret.matched = 1
    /\ ret.raised = ""
    /\ ret.result = NO_MATCH
    /\ ret.before.times_applied = ret.initial + 1
    /\ rule.times_applied = ret.initial + 1

----------------------------------------------------------------------------
(* The order of the rules of a set, checked under SetSpec *)

\* The orderings of a list of n rules, and the list q in the ordering p
Orderings(n) == {p \in [1 .. n -> 1 .. n] : \A i, j \in 1 .. n : p[i] = p[j] => i = j}
Reordered(q, p) == [i \in 1 .. Len(q) |-> q[p[i]]]

\* The scores of the actions on the k-th sample of the call of ret, had the
\* rules of the set been listed in the ordering p
ScoresReordered(p, k) ==
    LET out == choose_action([ret.before EXCEPT !.rules = Reordered(ret.before.rules, p)],
                             SubSeq(ret.data, 1, k), min_maxes, ret.past)
    IN  [a \in ActionKeys |-> score(out.poll[a])]

\* C27: for given rules, default action and observations the scores of the
\* actions are the same for every ordering of the list of rules; what follows
\* the order is the bookkeeping, each rule carrying its own times_applied to
\* the place the ordering gives it.
C27_ScoresIgnoreRuleOrder ==
    (BindingEvaluated /\ ret.raised = "") =>
        \A p \in Orderings(Len(ret.before.rules)) :
            /\ \A k \in 1 .. Len(ret.data) :
                   ScoresReordered(p, k) = ret.sample_actions[k]
            /\ binding_evaluate([ret.before EXCEPT !.rules = Reordered(ret.before.rules, p)],
                                ret.data, min_maxes, ret.past).rules
                   = Reordered(rule_set.rules, p)

\* Two different rules fire on the sample, for different actions and with
\* different weights
C27_Witness ==
    /\ BindingEvaluated
    /\ ret.raised = ""
    /\ Len(ret.before.rules) = 2
    /\ ret.before.rules[1] # ret.before.rules[2]
    /\ ret.polls[1]["0"].count = 1
    /\ ret.polls[1]["1"].count = 1
    /\ ret.polls[1]["0"].coefficient_sum # ret.polls[1]["1"].coefficient_sum

----------------------------------------------------------------------------
(* The kind of the second operand in rendering and in evaluation, checked   *)
(* under RenderSpec                                                         *)

ConditionRendered == RenderedNow /\ ret.call.entity = "condition"
RenderedCondition == ret.before.rules[1].conditions[1]

\* The left-hand side and the operator of a rendered condition
FirstAndOperator(c, states) ==
    condition_part_to_string(c.first_state_coefficient, c.first_state_key,
                             c.first_state_lookback, c.first_state_exponent, states)
        \o " " \o c.operator \o " "

\* The string shows the second state: coefficient*name[lookback]^exponent
RenderedWithSecondState(c, states, string) ==
    string = FirstAndOperator(c, states)
                \o condition_part_to_string(c.second_state_coefficient,
                       c.second_state_key, c.second_state_lookback,
                       c.second_state_exponent, states)

\* The string shows the literal: second_state_value as it is, or rescaled
\* into the range of the first state and followed by that range
RenderedWithLiteral(c, states, mm, string) ==
    \/ string = FirstAndOperator(c, states) \o format_decimal(c.second_state_value)
    \/ LET rescaled == rescaled_to_string(c, state_dict(mm, c.first_state_key))
       IN  rescaled.raised = ""
              /\ string = FirstAndOperator(c, states) \o rescaled.string

\* C28: for every condition and state map exactly one kind of second operand
\* is active, chosen by whether second_state_key is a key of the state map,
\* and the rendering makes the choice the evaluation makes: the string shows
\* the second state exactly when the condition is evaluated against a second
\* state, and the literal exactly when it is evaluated against the literal.
C28_RenderingAndEvaluationAgree ==
    (ConditionRendered /\ ret.out.raised = "") =>
        LET c == RenderedCondition
            states == ret.call.states
            mm == ret.before.min_maxes
        IN  /\ RenderedWithSecondState(c, states, ret.out.string)
                  <=> second_state_in(c, states)
            /\ RenderedWithLiteral(c, states, mm, ret.out.string)
                  <=> ~second_state_in(c, states)

----------------------------------------------------------------------------
(* The categorical naming convention: a name is encoded with a category     *)
(* value by RuleSetConfigHelper and taken apart again by the extract_*      *)
(* methods of RuleSetConfigHelper and of Condition.                         *)
(* A string is held here as the sequence of its chunks, a chunk being the   *)
(* marker or a piece of text without the marker.                            *)

MaxMarkers == 1

\* The names of categorical variables, and the text of their category values
EncodedNames == {<<"race">>, <<"acarbose">>, <<"context">>, <<"mode">>, <<"sex">>, <<"unit">>}
ValueTexts == {"Yes", "No", "Hispanic", "n/a"}

\* The category values with k occurrences of the marker in them
RECURSIVE ValuesWith(_)
ValuesWith(k) ==
    IF k = 0 THEN {<<t>> : t \in ValueTexts}
    ELSE {v \o <<CATEGORY_EXPLAINABLE_MARKER, t>> : v \in ValuesWith(k - 1), t \in ValueTexts}

CategoryValues == UNION {ValuesWith(k) : k \in 0 .. MaxMarkers}

\* The characters of a string of chunks
RECURSIVE text(_)
text(s) == IF s = <<>> THEN "" ELSE s[1] \o text(Tail(s))

\* var_item['name'] + CATEGORY_EXPLAINABLE_MARKER + var_item['values'][i]
encoded_name(name, value) == name \o <<CATEGORY_EXPLAINABLE_MARKER>> \o value

\* str.split(sep): the pieces of s between the occurrences of sep, all of them
RECURSIVE split(_, _)
split(s, sep) ==
    IF \A i \in 1 .. Len(s) : s[i] # sep THEN <<s>>
    ELSE LET first == CHOOSE i \in 1 .. Len(s) :
                          s[i] = sep /\ \A j \in 1 .. i - 1 : s[j] # sep
         IN  <<SubSeq(s, 1, first - 1)>> \o split(SubSeq(s, first + 1, Len(s)), sep)

\* The static methods of RuleSetConfigHelper
helper_is_categorical(condition_name) ==
    \E i \in 1 .. Len(condition_name) : condition_name[i] = CATEGORY_EXPLAINABLE_MARKER
helper_extract_categorical_condition_name(condition_name) ==
    split(condition_name, CATEGORY_EXPLAINABLE_MARKER)[1]
helper_extract_categorical_condition_category(condition_name) ==
    split(condition_name, CATEGORY_EXPLAINABLE_MARKER)[2]

\* The name as the static methods of Condition take it: its pieces between
\* the occurrences of the marker
pieces(condition_name) ==
    LET list == split(condition_name, CATEGORY_EXPLAINABLE_MARKER)
    IN  [i \in 1 .. Len(list) |-> text(list[i])]

ExtractInit ==
    /\ ret = NoCall
    /\ RuleBasedIdle
    /\ OutsideIdle

\* A categorical name is made of name and value, and both classes take it
\* apart
Extract(name, value) ==
    /\ ret' = [op |-> "extract", name |-> name, value |-> value,
               condition_name |-> text(encoded_name(name, value)),
               helper |-> [is_categorical |->
                               helper_is_categorical(encoded_name(name, value)),
                           name |-> text(helper_extract_categorical_condition_name(
                                             encoded_name(name, value))),
                           category |-> text(helper_extract_categorical_condition_category(
                                                 encoded_name(name, value)))],
               condition |-> [is_categorical |->
                                  is_categorical(pieces(encoded_name(name, value))),
                              name |-> extract_categorical_condition_name(
                                           pieces(encoded_name(name, value))),
                              category |-> extract_categorical_condition_category(
                                               pieces(encoded_name(name, value)))]]
    /\ UNCHANGED <<rule_based, outside>>

ExtractNext == \E name \in EncodedNames : \E value \in CategoryValues : Extract(name, value)

ExtractSpec == ExtractInit /\ [][ExtractNext]_vars

Extracted == ret.op = "extract"

\* C26: for every name and category value, the name encoded as name + marker
\* + value is split at the first occurrence of the marker: the extract methods
\* of RuleSetConfigHelper and of Condition give back the name and the whole
\* category value, also when the category value contains the marker.
C26_SplitAtFirstMarker ==
    Extracted =>
        /\ ret.helper.is_categorical /\ ret.condition.is_categorical
        /\ ret.helper.name = text(ret.name)
        /\ ret.condition.name = text(ret.name)
        /\ ret.helper.category = text(ret.value)
        /\ ret.condition.category = text(ret.value)

----------------------------------------------------------------------------
(* RuleSetBinding: the rule set, states and actions a binding is made of    *)
(* and the evaluation of the binding.  The caller's objects and the         *)
(* binding's live in the heap: a RuleSet refers to the list of its rules,   *)
(* each Rule holds its times_applied and its genetic material (by its       *)
(* number in BoundGenes: the evaluation never assigns to it), states and    *)
(* actions are lists of descriptors.                                        *)

\* The genetic material of the rules of a bound set: a rule that always
\* fires for action "0" with a coefficient of its own, and a rule that fires
\* for action "1" when state "0" is at least half way up its range
BoundGenes ==
    << [conditions |-> <<>>, action |-> "0", action_lookback |-> 0,
        action_coefficient |-> <<50>>],
       [conditions |-> <<[first_state_key |-> "0", first_state_lookback |-> 0,
                          first_state_coefficient |-> 100,
                          operator |-> GREATER_THAN_EQUAL,
                          second_state_key |-> LITERAL_KEY,
                          second_state_lookback |-> 0, second_state_value |-> 50,
                          second_state_coefficient |-> 100]>>,
        action |-> "1", action_lookback |-> 0, action_coefficient |-> <<>>] >>

\* The heap of a caller with a rule set of the rules of genes (RuleSet at
\* address 1, the list of its rules at 2, the rules from 3 on), a list of one
\* state descriptor and a list of one action descriptor
caller_heap(genes) ==
    << instance([rules |-> ref(2), times_applied |-> float(0)]),
       list_object([i \in 1 .. Len(genes) |-> ref(2 + i)]) >>
    \o [i \in 1 .. Len(genes) |->
           instance([genes |-> float(genes[i]), times_applied |-> float(0)])]
    \o << list_object(<<ref(Len(genes) + 4)>>), instance([size |-> float(1)]),
          list_object(<<ref(Len(genes) + 6)>>), instance([size |-> float(1)]) >>

\* What the caller passes to RuleSetBinding(rules, states, actions)
caller_arguments(h) ==
    [rules |-> 1, states |-> Len(h) - 3, actions |-> Len(h) - 1]

BindingCallerHeaps ==
    {caller_heap(genes) : genes \in SeqsUpTo({0, 1}, MaxRules) \ {<<>>}}

\* RuleSetBinding.__init__: the three deep copies, one after the other
bound_actions(rules, states, actions) ==
    [heap |-> actions.heap,
     binding |-> [rules |-> rules.addr, states |-> states.addr,
                  actions |-> actions.addr]]
bound_states(arguments, rules, states) ==
    bound_actions(rules, states, deepcopy(states.heap, arguments.actions))
bound_rules(arguments, rules) ==
    bound_states(arguments, rules, deepcopy(rules.heap, arguments.states))
rule_set_binding(h, arguments) ==
    bound_rules(arguments, deepcopy(h, arguments.rules))

\* The Rule object at address a and the RuleSet object at root as the
\* evaluation reads them
bound_rule(h, a) ==
    [conditions |-> BoundGenes[h[a].items.genes.v + 1].conditions,
     action |-> BoundGenes[h[a].items.genes.v + 1].action,
     action_lookback |-> BoundGenes[h[a].items.genes.v + 1].action_lookback,
     action_coefficient |-> BoundGenes[h[a].items.genes.v + 1].action_coefficient,
     times_applied |-> h[a].items.times_applied.v]

bound_rule_set(h, root) ==
    [rules |-> [i \in DOMAIN h[h[root].items.rules.v].items |->
                   bound_rule(h, h[h[root].items.rules.v].items[i].v)],
     default_action |-> "0", default_action_coefficient |-> 100,
     times_applied |-> h[root].items.times_applied.v, age_state |-> 0]

\* The heap after the evaluation of the rule set at root came to rules: the
\* Rule objects of its list carry the new times_applied
applications_stored(h, root, rules) ==
    [a \in DOMAIN h |->
        IF \E i \in DOMAIN rules : h[h[root].items.rules.v].items[i].v = a
        THEN [h[a] EXCEPT !.items.times_applied =
                 float(rules[CHOOSE i \in DOMAIN rules :
                                 h[h[root].items.rules.v].items[i].v = a].times_applied)]
        ELSE h[a]]

\* What the three objects of b hold, at every nesting level
BoundContents(h, b) ==
    Contents(h, b.rules, "rules/") \cup Contents(h, b.states, "states/")
        \cup Contents(h, b.actions, "actions/")

BoundReach(h, b) == Reach(h, b.rules) \cup Reach(h, b.states) \cup Reach(h, b.actions)

BindInit ==
    /\ heap \in BindingCallerHeaps
    /\ caller = caller_arguments(heap)
    /\ binding = NoObject
    /\ ret = NoCall
    /\ caller_min_maxes = NoObject
    /\ RuleBasedIdle
    /\ ConfigHelperIdle
    /\ PersistenceIdle
    /\ ConcurrencyIdle
    /\ SessionIdle

\* The state RuleSetBinding.__init__ leaves
Bound(made) ==
    /\ heap' = made.heap
    /\ binding' = made.binding
    /\ ret' = [op |-> "bind", caller_before |-> BoundContents(heap, caller),
               binding_before |-> {}]

\* RuleSetBinding(rules, states, actions)
Bind ==
    /\ ret.op = "none"
    /\ Bound(rule_set_binding(heap, caller))
    /\ UNCHANGED <<caller, caller_min_maxes>>
    /\ UNCHANGED <<rule_based, config_helper, persistence, concurrency, session>>

\* The state a call of RuleSetBindingEvaluator.evaluate on the binding
\* leaves, out being what its loop over the samples came to
Evaluated_bound(out) ==
    /\ heap' = applications_stored(heap, binding.rules, out.rules)
    /\ ret' = [op |-> "evaluate", caller_before |-> BoundContents(heap, caller),
               binding_before |-> BoundContents(heap, binding)]

\* RuleSetBindingEvaluator.evaluate(binding, data)
EvaluateBound(data, past) ==
    /\ ret.op # "none"
    /\ \A i \in DOMAIN bound_rule_set(heap, binding.rules).rules :
           bound_rule_set(heap, binding.rules).rules[i].times_applied + Len(data)
               =< MaxApplied
    /\ Evaluated_bound(binding_evaluate(bound_rule_set(heap, binding.rules), data,
                                        FullCalibration, past))
    /\ UNCHANGED <<caller, binding, caller_min_maxes>>
    /\ UNCHANGED <<rule_based, config_helper, persistence, concurrency, session>>

\* The caller assigns to a field of one of the objects it passed, at any
\* nesting level
CallerChanges ==
    /\ ret.op # "none"
    /\ \E a \in BoundReach(heap, caller) :
       \E k \in {k \in DOMAIN heap[a].items : heap[a].items[k].kind = "float"} :
       \E x \in Floats :
           heap' = item_set(heap, a, k, x)
    /\ ret' = [op |-> "caller", caller_before |-> BoundContents(heap, caller),
               binding_before |-> BoundContents(heap, binding)]
    /\ UNCHANGED <<caller, binding, caller_min_maxes>>
    /\ UNCHANGED <<rule_based, config_helper, persistence, concurrency, session>>

BindNext ==
    \/ Bind
    \/ \E data \in Samples : \E past \in PastActions : EvaluateBound(data, past)
    \/ CallerChanges

BindSpec == BindInit /\ [][BindNext]_vars

\* C30: a RuleSetBinding holds deep copies of the rule set, states and
\* actions it was made of: it shares no object with them, an evaluation of the
\* binding leaves the caller's RuleSet (the times_applied of its rules
\* included), states and actions as they were, and a later change to the
\* caller's objects leaves the binding as it was.
C30_BindingHoldsDeepCopies ==
    ret.op # "none" =>
        /\ BoundReach(heap, binding) \cap BoundReach(heap, caller) = {}
        /\ ret.op = "bind" =>
               /\ BoundContents(heap, binding) = BoundContents(heap, caller)
               /\ BoundContents(heap, caller) = ret.caller_before
        /\ ret.op = "evaluate" => BoundContents(heap, caller) = ret.caller_before
        /\ ret.op = "caller" => BoundContents(heap, binding) = ret.binding_before

\* An evaluation counted an application on a rule of the binding, and the
\* caller's rule is as it was, never applied
C30_Witness ==
    /\ ret.op = "evaluate"
    /\ <<"rules/rules/1/times_applied", 0>> \in ret.binding_before
    /\ <<"rules/rules/1/times_applied", 1>> \in BoundContents(heap, binding)
    /\ <<"rules/rules/1/times_applied", 0>> \in BoundContents(heap, caller)
    /\ BoundContents(heap, caller) = ret.caller_before

----------------------------------------------------------------------------
(* GrpcClientRetry: must_connect and must_have_response.                    *)
(* A call runs in steps that end where the code blocks: waiting for the     *)
(* channel to be ready, in the rpc call, and in the two waits before a      *)
(* retry.  What the service, the credentials and the clock do is chosen by  *)
(* the environment.  A channel is held by its number, None by NoObject;     *)
(* client.open is the set of the channels made and not closed.              *)

MaxFailures == 3
MaxAttempts == 2
MaxRequests == 2

StatusCodes == {"UNAVAILABLE", "UNAUTHENTICATED"}

\* What an attempt may raise: an RpcError has a status code and a message
\* that does or does not hold 'Service refusing'
RpcErrors == [type : {"RpcError"}, code : StatusCodes, refusal : BOOLEAN]
OtherErrors == {[type |-> t, code |-> "", refusal |-> FALSE] : t \in {"KeyError", "Exception"}}
ValueError == [type |-> "ValueError", code |-> "", refusal |-> FALSE]
KeyError == [type |-> "KeyError", code |-> "", refusal |-> FALSE]

\* What channel_security gives when a channel is to be made: no credentials
\* needed, channel credentials, call credentials, None, or a KeyError
Credentials == {"insecure", "channel", "call", "none", "KeyError"}

\* GrpcClientRetry.__init__; umbrella is "none" without an umbrella timeout,
\* else "running" and later "expired"
Clients ==
    [channel : {NoObject}, made : {0}, open : {{}}, has_token : {FALSE},
     call_credentials : {FALSE},
     limited_retry_set : {{}, {"UNAVAILABLE"}},
     limited_retry_attempts : 1 .. MaxAttempts,
     umbrella : {"none", "running"}]

\* No call in progress, requests calls having been made
idle(requests) ==
    [method |-> "none", pc |-> "idle", num_attempts |-> 0, response |-> NoObject,
     stub |-> NoObject, raised |-> "", value |-> NoObject, errors |-> <<>>,
     attempts |-> <<>>, requests |-> requests]

\* Timeout.has_time(poll_interval_seconds, timeout=umbrella_timeout): there
\* is always time without an umbrella timeout; lapse tells that a running one
\* has run out by now
clock(c, lapse) ==
    IF c.umbrella = "running" /\ lapse THEN [c EXCEPT !.umbrella = "expired"] ELSE c
has_time(c) == c.umbrella # "expired"

\* Mutant: the reference is dropped and the channel is not closed
close_channel_dropped(c) == [c EXCEPT !.channel = NoObject]

\* GrpcClientRetry.close_channel
close_channel(c) ==
    IF c.channel # NoObject
    THEN [c EXCEPT !.open = @ \ {c.channel}, !.channel = NoObject]
    ELSE c

\* Mutant: the token is reset and the channel is left as it is
close_channel_and_reset_token_only(c) == [c EXCEPT !.has_token = FALSE]

\* GrpcClientRetry.close_channel_and_reset_token
close_channel_and_reset_token(c) == [close_channel(c) EXCEPT !.has_token = FALSE]

\* grpc.secure_channel or grpc.insecure_channel, assigned to self.channel
new_channel(c) ==
    [c EXCEPT !.made = @ + 1, !.channel = c.made + 1, !.open = @ \cup {c.made + 1}]

\* Mutant: every RpcError of the limited set counts, a refusal too
is_shut_down_refusal_never(e) == FALSE

\* GrpcClientRetry._is_shut_down_refusal
is_shut_down_refusal(e) == e.refusal

\* GrpcClientRetry._check_unauthenticated, as it leaves the client
check_unauthenticated(c, status_code) ==
    IF status_code = "UNAUTHENTICATED" THEN close_channel_and_reset_token(c) ELSE c

\* The call ends: it raises, or returns value
done(r, raised, value) ==
    [r EXCEPT !.pc = "done", !.raised = raised, !.value = value]

\* must_have_response from `except Exception` to the wait before the retry:
\* the channel is closed and the call waits
retried(c, r) ==
    [client |-> close_channel(c), rpc |-> [r EXCEPT !.pc = "retry_wait"]]

\* The RpcError was of the limited set and no refusal, and n such errors
\* have been met by now
limited(c, r, n) ==
    IF n = c.limited_retry_attempts
    THEN [client |-> close_channel(close_channel(c)),
          rpc |-> done([r EXCEPT !.num_attempts = n], "RpcError", NoObject)]
    ELSE retried(c, [r EXCEPT !.num_attempts = n])

\* must_have_response: `except Exception as exception` and `finally`
excepted(c, r, e) ==
    IF e.type = "RpcError"
    THEN IF e.code \in c.limited_retry_set /\ ~is_shut_down_refusal(e)
         THEN limited(check_unauthenticated(c, e.code), r, r.num_attempts + 1)
         ELSE retried(check_unauthenticated(c, e.code), r)
    ELSE IF e.type = "KeyError"
    THEN [client |-> close_channel(close_channel_and_reset_token(c)),
          rpc |-> done(r, "KeyError", NoObject)]
    ELSE retried(c, r)

\* must_have_response: `except KeyboardInterrupt` and `finally`
interrupted(c, r) ==
    [client |-> close_channel(close_channel_and_reset_token(c)),
     rpc |-> done(r, "KeyboardInterrupt", NoObject)]

\* An exception leaves must_connect: must_have_response catches it, a direct
\* caller gets it
connect_raised(c, r, e) ==
    IF r.method = "must_have_response" THEN excepted(c, r, e)
    ELSE [client |-> c, rpc |-> done(r, e.type, NoObject)]

\* must_connect returns None, its loop having found no time left:
\* must_have_response breaks out of its own loop through `finally`
connect_returned_none(c, r) ==
    IF r.method = "must_have_response"
    THEN [client |-> close_channel(c), rpc |-> done(r, "", r.response)]
    ELSE [client |-> c, rpc |-> done(r, "", NoObject)]

\* _connect_to_service up to the wait for the channel to be ready, the
\* channel it had being closed by now
channel_made(c, r, credentials) ==
    IF credentials = "none"
    THEN connect_raised(close_channel_and_reset_token(c), r, ValueError)
    ELSE IF credentials = "KeyError"
    THEN connect_raised(c, r, KeyError)
    ELSE [client |-> [new_channel(c) EXCEPT
                         !.has_token = @ \/ credentials # "insecure",
                         !.call_credentials = credentials = "call"],
          rpc |-> [r EXCEPT !.pc = "connecting"]]

\* The loop of must_connect from its test on, c being the client when the
\* clock has been read
connect_loop(c, r, credentials) ==
    IF ~has_time(c) THEN connect_returned_none(c, r)
    ELSE channel_made([close_channel(c) EXCEPT !.call_credentials = FALSE],
                      r, credentials)

\* Mutant: the loop is left when a response came, be it None
must_have_response_loop_once(c, r) ==
    IF r.response # NoObject \/ r.attempts # <<>>
    THEN [client |-> c, rpc |-> done(r, "", r.response)]
    ELSE IF ~has_time(c) THEN [client |-> c, rpc |-> done(r, "", r.response)]
    ELSE [client |-> c, rpc |-> [r EXCEPT !.pc = "connect_loop", !.stub = NoObject]]

\* The test of the loop of must_have_response, c being the client when the
\* clock has been read (it is read only while the response is None)
must_have_response_loop(c, r) ==
    IF r.response # NoObject THEN [client |-> c, rpc |-> done(r, "", r.response)]
    ELSE IF ~has_time(c) THEN [client |-> c, rpc |-> done(r, "", r.response)]
    ELSE [client |-> c, rpc |-> [r EXCEPT !.pc = "connect_loop", !.stub = NoObject]]

\* The channel is ready and the stub is made on it: must_connect returns it,
\* and must_have_response goes on to the rpc call
connected(c, r) ==
    IF r.method = "must_have_response"
    THEN [r EXCEPT !.pc = "calling", !.stub = c.channel,
                   !.attempts = Append(@, c.channel)]
    ELSE done([r EXCEPT !.stub = c.channel], "", c.channel)

\* KeyboardInterrupt while must_connect waits for the channel or sleeps
connect_interrupted(c, r) ==
    IF r.method = "must_have_response"
    THEN interrupted(IF r.pc = "connecting" THEN close_channel_and_reset_token(c) ELSE c, r)
    ELSE [client |-> IF r.pc = "connecting" THEN close_channel_and_reset_token(c) ELSE c,
          rpc |-> done(r, "KeyboardInterrupt", NoObject)]

GrpcInit ==
    /\ client \in Clients
    /\ rpc = idle(0)
    /\ service \in 0 .. MaxFailures
    /\ ret = NoCall
    /\ RuleBasedIdle
    /\ ConfigHelperIdle
    /\ ConstructionIdle
    /\ PersistenceIdle
    /\ ConcurrencyIdle
    /\ BoundIdle

\* The state a step of a call leaves; failed tells that the environment
\* made the step fail, which it does only so many times
Stepped(next, failed) ==
    /\ failed => service > 0
    /\ client' = next.client
    /\ rpc' = next.rpc
    /\ service' = IF failed THEN service - 1 ELSE service
    /\ UNCHANGED <<rule_based, ret, config_helper, construction, persistence,
                   concurrency, bound>>

\* A caller may call a method of the client.  A caller that was given a stub
\* by must_connect closes the channel before it calls again
Callable ==
    /\ rpc.pc \in {"idle", "done"}
    /\ client.channel = NoObject
    /\ rpc.requests < MaxRequests

\* A caller calls must_connect
CallMustConnect ==
    /\ Callable
    /\ rpc' = [idle(rpc.requests + 1) EXCEPT !.method = "must_connect",
                                             !.pc = "connect_loop"]
    /\ UNCHANGED <<client, service>>
    /\ UNCHANGED <<rule_based, ret, config_helper, construction, persistence,
                   concurrency, bound>>

\* A caller calls must_have_response
CallMustHaveResponse ==
    /\ Callable
    /\ rpc' = [idle(rpc.requests + 1) EXCEPT !.method = "must_have_response",
                                             !.pc = "loop"]
    /\ UNCHANGED <<client, service>>
    /\ UNCHANGED <<rule_based, ret, config_helper, construction, persistence,
                   concurrency, bound>>

\* The caller of must_connect closes the channel it was left with
CallCloseChannel ==
    /\ rpc.pc = "done"
    /\ client.channel # NoObject
    /\ Stepped([client |-> close_channel(client), rpc |-> idle(rpc.requests)], FALSE)

\* `while response is None and Timeout.has_time(...)` of must_have_response
MustHaveResponseLoop(lapse) ==
    /\ rpc.pc = "loop"
    /\ Stepped(must_have_response_loop(
                   IF rpc.response = NoObject THEN clock(client, lapse) ELSE client,
                   rpc), FALSE)

\* `while stub_instance is None and Timeout.has_time(...)` of must_connect
\* and, with time left, _connect_to_service up to the wait for the channel
ConnectLoop(lapse, credentials) ==
    /\ rpc.pc = "connect_loop"
    /\ Stepped(connect_loop(clock(client, lapse), rpc, credentials),
               credentials \in {"none", "KeyError"})

\* grpc.channel_ready_future(self.channel).result(...) returns
ConnectReady ==
    /\ rpc.pc = "connecting"
    /\ Stepped([client |-> client, rpc |-> connected(client, rpc)], FALSE)

\* ... or raises FutureTimeoutError: the channel is closed, None is returned
\* to must_connect, which closes the channel and waits
ConnectTimesOut ==
    /\ rpc.pc = "connecting"
    /\ Stepped([client |-> close_channel(close_channel(client)),
                rpc |-> [rpc EXCEPT !.pc = "connect_wait"]], TRUE)

\* The wait of must_connect is over
ConnectWaitEnds ==
    /\ rpc.pc = "connect_wait"
    /\ Stepped([client |-> client, rpc |-> [rpc EXCEPT !.pc = "connect_loop"]], FALSE)

\* rpc_call_from_stub returns a response or None; `finally` closes the channel
RpcReturns(response) ==
    /\ rpc.pc = "calling"
    /\ Stepped([client |-> close_channel(client),
                rpc |-> [rpc EXCEPT !.response = response, !.pc = "loop"]],
               response = NoObject)

\* rpc_call_from_stub raises
RpcRaises(e) ==
    /\ rpc.pc = "calling"
    /\ Stepped(excepted(client, [rpc EXCEPT !.errors = Append(@, e)], e), TRUE)

\* The wait of must_have_response is over; `finally` closes the channel
RetryWaitEnds ==
    /\ rpc.pc = "retry_wait"
    /\ Stepped([client |-> close_channel(client), rpc |-> [rpc EXCEPT !.pc = "loop"]],
               FALSE)

\* KeyboardInterrupt where the call blocks
Interrupt ==
    /\ rpc.pc \in {"connecting", "connect_wait", "calling", "retry_wait"}
    /\ Stepped(IF rpc.pc \in {"connecting", "connect_wait"}
               THEN connect_interrupted(client, rpc)
               ELSE interrupted(client, rpc), TRUE)

\* The steps of a call in progress
Running ==
    \/ \E lapse \in BOOLEAN : MustHaveResponseLoop(lapse)
    \/ \E lapse \in BOOLEAN : \E credentials \in Credentials :
           ConnectLoop(lapse, credentials)
    \/ ConnectReady
    \/ ConnectTimesOut
    \/ ConnectWaitEnds
    \/ \E response \in {NoObject, 1} : RpcReturns(response)
    \/ \E e \in RpcErrors \cup OtherErrors : RpcRaises(e)
    \/ RetryWaitEnds
    \/ Interrupt

GrpcNext ==
    \/ CallMustConnect
    \/ CallMustHaveResponse
    \/ CallCloseChannel
    \/ Running

GrpcSpec == GrpcInit /\ [][GrpcNext]_vars

\* Every wait of a call has a timeout, and the thread of the call runs on
GrpcLiveSpec == GrpcSpec /\ WF_vars(Running)

----------------------------------------------------------------------------
(* Claims about GrpcClientRetry                                             *)

InMustHaveResponse == rpc.pc # "idle" /\ rpc.method = "must_have_response"
MustHaveResponseDone == InMustHaveResponse /\ rpc.pc = "done"
MustConnectDone == rpc.pc = "done" /\ rpc.method = "must_connect"
ChannelClosed == client.channel = NoObject /\ client.open = {}

\* The RpcErrors met so far by the call that count against the limit
LimitedErrors ==
    {i \in DOMAIN rpc.errors :
        /\ rpc.errors[i].type = "RpcError"
        /\ rpc.errors[i].code \in client.limited_retry_set
        /\ ~rpc.errors[i].refusal}

\* C21: within one call of must_have_response the failures whose status code
\* is in limited_retry_set and that are no 'Service refusing' refusal are
\* counted, and no others; on the limited_retry_attempts-th of them the call
\* closes the channel and raises the RpcError, and before that it retries
C21_LimitedRetries ==
    InMustHaveResponse =>
        /\ rpc.num_attempts = Cardinality(LimitedErrors)
        /\ rpc.num_attempts <= client.limited_retry_attempts
        /\ (rpc.num_attempts = client.limited_retry_attempts)
              <=> (rpc.pc = "done" /\ rpc.raised = "RpcError")
        /\ (rpc.pc = "done" /\ rpc.raised = "RpcError") =>
              /\ ChannelClosed
              /\ Len(rpc.errors) \in LimitedErrors

\* Two failures of the limited set, a refusal between them that did not
\* count, and the second one raised
C21_Witness ==
    /\ MustHaveResponseDone
    /\ rpc.raised = "RpcError"
    /\ client.limited_retry_attempts = 2
    /\ Len(rpc.errors) = 3
    /\ rpc.errors[2].type = "RpcError"
    /\ rpc.errors[2].refusal
    /\ rpc.errors[2].code \in client.limited_retry_set

FreshChannels ==
    /\ \A i, j \in DOMAIN rpc.attempts : i # j => rpc.attempts[i] # rpc.attempts[j]
    /\ rpc.pc = "calling" =>
          /\ client.channel = rpc.attempts[Len(rpc.attempts)]
          /\ client.open = {client.channel}

\* must_have_response returned None
ReturnedNone == MustHaveResponseDone /\ rpc.raised = "" /\ rpc.value = NoObject

\* must_have_response returned the response of the service
ReturnedResponse == MustHaveResponseDone /\ rpc.raised = "" /\ rpc.value # NoObject

\* There is no umbrella timeout and no status code has limited retries
Unlimited == client.umbrella = "none" /\ client.limited_retry_set = {}

====
